---- MODULE Spec2Model ----
(***************************************************************************)
(* Model of the orchestration core of internal/core: the Factory registry  *)
(* of Basis instances (factory.go) and the Project's target collection     *)
(* (project.go), with the test helper that loads targets                   *)
(* (testing_target.go).                                                    *)
(*                                                                         *)
(* Seven specifications share the module, each leaving the variables of    *)
(* the others alone: FactorySpec runs concurrent Factory.New and           *)
(* Basis.Close calls; ProjectSpec runs concurrent calls on one Project;    *)
(* ProviderSpec runs one Project.DefaultProvider call on each input;       *)
(* CloseSpec runs LoadTarget, Closer and Close on one Project; InitSpec    *)
(* runs InitTargets, Run, Save and LoadTarget on one Project; OptionsSpec  *)
(* runs LoadTarget calls that carry several options; RefSpec applies the   *)
(* option WithProjectRef once on each input.                               *)
(***************************************************************************)
EXTENDS Integers, Sequences, FiniteSets, TLC

\* ------------------------------------------------------------------ bounds
\* Number of sub-scopes Factory.New may create (one per call that misses).
MaxSub == 2
\* Number of concurrent callers of the Factory.
NumProcs == 2
\* Number of Target shells Project.LoadTarget may build successfully.
MaxShells == 3
\* Length the Project's persisted reference list may grow to.
MaxRefs == 2
\* Number of options a LoadTarget call may be given after WithTargetRef.
MaxOpts == 2

Procs == 1..NumProcs
\* Callers of the Project: the test's goroutine, which alone uses the test
\* helper, and one caller running concurrently with it.
Callers == {"test", "other"}
\* Basis names; "" is the empty name of an unnamed Factory.New call.
Names == {"a", "b"}
\* Results of a call.
None == 0
Err == -1

VARIABLES
    registered,   \* Factory.registered: name -> basis id, None when absent
    m,            \* Factory.m: 0 when free, else the process holding it
    subs,         \* plugin-manager sub-scopes made by Factory.plugins.Sub
    bases,        \* Basis instances, indexed as their sub-scope
    fpc,          \* position of each caller inside Factory.New / Basis.Close
    fcall,        \* arguments and locals of each caller's current call
    fret          \* result of each caller's last completed Factory.New

fvars == <<registered, m, subs, bases, fpc, fcall, fret>>

VARIABLES
    db,           \* resource ids of the target records the Persistence Client holds
    prefs,        \* Project.project.Targets: the persisted reference list
    targets,      \* Project.targets: resource id -> loaded Target, NoTarget when absent
    pm,           \* Project.m: "" when free, else the caller holding it
    nshell,       \* number of Target shells built so far; a shell's number is its identity
    ppc,          \* position of each caller inside a Project operation
    pcall,        \* arguments and locals of each caller's current call
    pret          \* result the current call is about to return

pvars == <<db, prefs, targets, pm, nshell, ppc, pcall, pret>>

VARIABLES
    dpin,         \* DefaultProvider: the options, the environment, the machine
                  \* configurations and the plugin manager's answers of one call
    dpout         \* DefaultProvider: what the call returned and what it asked for

dvars == <<dpin, dpout>>

VARIABLES
    closers,      \* Project.closers: the registered cleanup actions, in order
    creg,         \* the cleanup actions whose Closer call has returned
    clog,         \* what Project.Close has invoked so far, in order
    inBasis       \* whether the Basis's project collection holds the Project

cvars == <<closers, creg, clog, inBasis>>

VARIABLES
    cfg,          \* Project.project.Configuration: its machine configurations
    srefs,        \* the reference list of the Project's record at the server
    run           \* what each caller's last Project.Run resolved, invoked and returned

ivars == <<cfg, srefs, run>>

VARIABLES
    prin,         \* WithProjectRef: the reference, the Project it is applied to
                  \* and the Persistence Client's answers of one application
    prout         \* WithProjectRef: what the option returned and left behind

rvars == <<prin, prout>>

\* The state outside the Factory and the Project's target collection.
xvars == <<dvars, cvars, ivars, rvars>>

vars == <<fvars, pvars, xvars>>

\* A candidate that NewBasis has not (or not successfully) constructed.
NoBasis == [st |-> "none", name |-> "", applied |-> 0, closers |-> <<>>, ran |-> <<>>]

NoCall == [name |-> "", pm |-> 0, b |-> 0, i |-> 0]

BasisIds == 1..Len(bases)

FactoryInit ==
    /\ registered = [n \in Names |-> None]
    /\ m = 0
    /\ subs = <<>>
    /\ bases = <<>>
    /\ fpc = [p \in Procs |-> "idle"]
    /\ fcall = [p \in Procs |-> NoCall]
    /\ fret = [p \in Procs |-> None]

\* --------------------------------------------------------- Factory.New
\* A caller invokes New(name, opts...) with a name, possibly empty.
NewCall(p) ==
    /\ fpc[p] = "idle"
    /\ \E name \in Names \cup {""} :
        fcall' = [fcall EXCEPT ![p] = [NoCall EXCEPT !.name = name]]
    /\ fpc' = [fpc EXCEPT ![p] = "lock"]
    /\ fret' = [fret EXCEPT ![p] = None]
    /\ UNCHANGED <<registered, m, subs, bases>>
    /\ UNCHANGED <<pvars, xvars>>

\* Mutant: the call does not wait for the registry lock.
NewLockNoWait(p) ==
    /\ fpc[p] = "lock"
    /\ m' = p
    /\ fpc' = [fpc EXCEPT ![p] = "check"]
    /\ UNCHANGED <<registered, subs, bases, fcall, fret>>
    /\ UNCHANGED <<pvars, xvars>>

\* f.m.Lock(); the deferred Unlock runs at return (NewReturn).
NewLock(p) ==
    /\ fpc[p] = "lock"
    /\ m = 0
    /\ m' = p
    /\ fpc' = [fpc EXCEPT ![p] = "check"]
    /\ UNCHANGED <<registered, subs, bases, fcall, fret>>
    /\ UNCHANGED <<pvars, xvars>>

\* Mutant: a registry hit applies the call's options to the registered Basis.
NewCheckApplies(p) ==
    /\ fpc[p] = "check"
    /\ IF fcall[p].name # "" /\ registered[fcall[p].name] # None
       THEN /\ fret' = [fret EXCEPT ![p] = registered[fcall[p].name]]
            /\ bases' = [bases EXCEPT ![registered[fcall[p].name]].applied = @ + 1]
            /\ fpc' = [fpc EXCEPT ![p] = "return"]
       ELSE /\ fpc' = [fpc EXCEPT ![p] = "sub"]
            /\ UNCHANGED <<fret, bases>>
    /\ UNCHANGED <<registered, m, subs, fcall>>
    /\ UNCHANGED <<pvars, xvars>>

\* if name != "" { if b, ok := f.registered[name]; ok { return b, nil } }
NewCheck(p) ==
    /\ fpc[p] = "check"
    /\ IF fcall[p].name # "" /\ registered[fcall[p].name] # None
       THEN /\ fret' = [fret EXCEPT ![p] = registered[fcall[p].name]]
            /\ fpc' = [fpc EXCEPT ![p] = "return"]
       ELSE /\ fpc' = [fpc EXCEPT ![p] = "sub"]
            /\ UNCHANGED fret
    /\ UNCHANGED <<registered, m, subs, bases, fcall>>
    /\ UNCHANGED <<pvars, xvars>>

\* Mutant: the lock is released once the registry has been read, before the
\* candidate is constructed.
NewSubUnlocked(p) ==
    /\ fpc[p] = "sub"
    /\ Len(subs) < MaxSub
    /\ subs' = Append(subs, [open |-> TRUE])
    /\ bases' = Append(bases, NoBasis)
    /\ fcall' = [fcall EXCEPT ![p].pm = Len(subs) + 1]
    /\ fpc' = [fpc EXCEPT ![p] = "construct"]
    /\ m' = 0
    /\ UNCHANGED <<registered, fret>>
    /\ UNCHANGED <<pvars, xvars>>

\* pm := f.plugins.Sub(name)
NewSub(p) ==
    /\ fpc[p] = "sub"
    /\ Len(subs) < MaxSub
    /\ subs' = Append(subs, [open |-> TRUE])
    /\ bases' = Append(bases, NoBasis)
    /\ fcall' = [fcall EXCEPT ![p].pm = Len(subs) + 1]
    /\ fpc' = [fpc EXCEPT ![p] = "construct"]
    /\ UNCHANGED <<registered, m, fret>>
    /\ UNCHANGED <<pvars, xvars>>

\* The candidate NewBasis builds from the options: the call's options have
\* been applied to it once, it carries the cleanup action they registered,
\* and it resolves to the given name of a named call, or to a name that only
\* construction finds (loaded from persisted state) for an unnamed one.
NewBasis(rname) ==
    [st |-> "candidate", name |-> rname, applied |-> 1,
     closers |-> <<"hook">>, ran |-> <<>>]

\* Mutant: a candidate whose construction failed is registered all the same.
NewConstructRegistersFailed(p) ==
    /\ fpc[p] = "construct"
    /\ \E fail \in BOOLEAN, rname \in Names :
        /\ fcall[p].name # "" => rname = fcall[p].name
        /\ IF fail
           THEN /\ fret' = [fret EXCEPT ![p] = Err]
                /\ fpc' = [fpc EXCEPT ![p] = "return"]
                /\ registered' = [registered EXCEPT ![rname] = fcall[p].pm]
                /\ UNCHANGED <<bases, fcall>>
           ELSE /\ bases' = [bases EXCEPT ![fcall[p].pm] = NewBasis(rname)]
                /\ fcall' = [fcall EXCEPT ![p].b = fcall[p].pm]
                /\ fpc' = [fpc EXCEPT ![p] = "recheck"]
                /\ UNCHANGED <<fret, registered>>
    /\ UNCHANGED <<m, subs>>
    /\ UNCHANGED <<pvars, xvars>>

\* b, err := NewBasis(f.ctx, opts...); if err != nil { return nil, err }
NewConstruct(p) ==
    /\ fpc[p] = "construct"
    /\ \E fail \in BOOLEAN, rname \in Names :
        /\ fcall[p].name # "" => rname = fcall[p].name
        /\ IF fail
           THEN /\ fret' = [fret EXCEPT ![p] = Err]
                /\ fpc' = [fpc EXCEPT ![p] = "return"]
                /\ UNCHANGED <<bases, fcall>>
           ELSE /\ bases' = [bases EXCEPT ![fcall[p].pm] = NewBasis(rname)]
                /\ fcall' = [fcall EXCEPT ![p].b = fcall[p].pm]
                /\ fpc' = [fpc EXCEPT ![p] = "recheck"]
                /\ UNCHANGED fret
    /\ UNCHANGED <<registered, m, subs>>
    /\ UNCHANGED <<pvars, xvars>>

\* Mutant: the candidate is registered without the second look at the
\* registry, replacing whatever is registered under its name.
NewRegisterOverwrites(p) ==
    /\ fpc[p] = "recheck"
    /\ LET b == fcall[p].b
           n == bases[b].name
       IN /\ registered' = [registered EXCEPT ![n] = b]
          /\ bases' = [bases EXCEPT ![b].closers =
                           bases[b].closers \o <<"deregister", "pmclose">>]
          /\ fret' = [fret EXCEPT ![p] = b]
    /\ fpc' = [fpc EXCEPT ![p] = "return"]
    /\ UNCHANGED <<m, subs, fcall>>
    /\ UNCHANGED <<pvars, xvars>>

\* Mutant: the winner gets the sub-scope cleanup only; nothing deregisters it.
NewRegisterNoDeregister(p) ==
    /\ fpc[p] = "recheck"
    /\ LET b == fcall[p].b
           n == bases[b].name
       IN IF registered[n] # None
          THEN /\ bases' = [bases EXCEPT ![b].st = "discarded",
                                         ![b].ran = bases[b].ran \o bases[b].closers]
               /\ fret' = [fret EXCEPT ![p] = registered[n]]
               /\ UNCHANGED registered
          ELSE /\ registered' = [registered EXCEPT ![n] = b]
               /\ bases' = [bases EXCEPT ![b].closers = bases[b].closers \o <<"pmclose">>]
               /\ fret' = [fret EXCEPT ![p] = b]
    /\ fpc' = [fpc EXCEPT ![p] = "return"]
    /\ UNCHANGED <<m, subs, fcall>>
    /\ UNCHANGED <<pvars, xvars>>

\* if existingB, ok := f.registered[b.Name()]; ok { b.Close(); return existingB, nil }
\* f.registered[b.Name()] = b; b.Closer(deregister); b.Closer(pm.Close); return b, nil
NewRegister(p) ==
    /\ fpc[p] = "recheck"
    /\ LET b == fcall[p].b
           n == bases[b].name
       IN IF registered[n] # None
          THEN /\ bases' = [bases EXCEPT ![b].st = "discarded",
                                         ![b].ran = bases[b].ran \o bases[b].closers]
               /\ fret' = [fret EXCEPT ![p] = registered[n]]
               /\ UNCHANGED registered
          ELSE /\ registered' = [registered EXCEPT ![n] = b]
               /\ bases' = [bases EXCEPT ![b].closers =
                                bases[b].closers \o <<"deregister", "pmclose">>]
               /\ fret' = [fret EXCEPT ![p] = b]
    /\ fpc' = [fpc EXCEPT ![p] = "return"]
    /\ UNCHANGED <<m, subs, fcall>>
    /\ UNCHANGED <<pvars, xvars>>

\* defer f.m.Unlock()
\* The caller now holds what New returned: a Basis it registered is live.
NewReturn(p) ==
    /\ fpc[p] = "return"
    /\ m' = 0
    /\ fpc' = [fpc EXCEPT ![p] = "idle"]
    /\ bases' = IF fcall[p].b # 0 /\ fret[p] = fcall[p].b
                THEN [bases EXCEPT ![fret[p]].st = "live"]
                ELSE bases
    /\ fcall' = [fcall EXCEPT ![p] = NoCall]
    /\ UNCHANGED <<registered, subs, fret>>
    /\ UNCHANGED <<pvars, xvars>>

\* --------------------------------------------------------- Basis.Close
\* A holder of a Basis closes it; callers serialise their close calls, so a
\* Basis is closed by one caller, once.  A caller holds a Basis only after
\* some Factory.New returned it.
CloseCall(p) ==
    /\ fpc[p] = "idle"
    /\ \E b \in BasisIds :
        /\ bases[b].st = "live"
        /\ bases' = [bases EXCEPT ![b].st = "closing"]
        /\ fcall' = [fcall EXCEPT ![p] = [NoCall EXCEPT !.b = b, !.i = 1]]
    /\ fpc' = [fpc EXCEPT ![p] = "closing"]
    /\ UNCHANGED <<registered, m, subs, fret>>
    /\ UNCHANGED <<pvars, xvars>>

\* One cleanup action of the Basis, in registration order.
\*   "deregister": f.m.Lock(); delete(f.registered, b.Name()); f.m.Unlock()
\*   "pmclose":    pm.Close()
\*   "hook":       a cleanup action the options registered
CloseStep(p) ==
    /\ fpc[p] = "closing"
    /\ LET b == fcall[p].b
           i == fcall[p].i
       IN /\ i <= Len(bases[b].closers)
          /\ LET c == bases[b].closers[i]
             IN /\ c = "deregister" => m = 0
                /\ registered' = IF c = "deregister"
                                 THEN [registered EXCEPT ![bases[b].name] = None]
                                 ELSE registered
                /\ subs' = IF c = "pmclose" THEN [subs EXCEPT ![b].open = FALSE] ELSE subs
                /\ bases' = [bases EXCEPT ![b].ran = Append(bases[b].ran, c)]
          /\ fcall' = [fcall EXCEPT ![p].i = i + 1]
    /\ UNCHANGED <<m, fpc, fret>>
    /\ UNCHANGED <<pvars, xvars>>

CloseReturn(p) ==
    /\ fpc[p] = "closing"
    /\ fcall[p].i > Len(bases[fcall[p].b].closers)
    /\ bases' = [bases EXCEPT ![fcall[p].b].st = "closed"]
    /\ fpc' = [fpc EXCEPT ![p] = "idle"]
    /\ fcall' = [fcall EXCEPT ![p] = NoCall]
    /\ UNCHANGED <<registered, m, subs, fret>>
    /\ UNCHANGED <<pvars, xvars>>

FactoryNext ==
    \E p \in Procs :
        \/ NewCall(p)
        \/ NewLock(p)
        \/ NewCheck(p)
        \/ NewSub(p)
        \/ NewConstruct(p)
        \/ NewRegister(p)
        \/ NewReturn(p)
        \/ CloseCall(p)
        \/ CloseStep(p)
        \/ CloseReturn(p)

\* ------------------------------------------------------------- Project
\* The target records that may exist: resource id, name, and whether the
\* record's state is active.  Record "n1" has the resource id that is the
\* name of record "i1".
RecIds == {"i1", "n1"}
RecName == [r \in RecIds |-> IF r = "i1" THEN "n1" ELSE "n2"]
RecActive == [r \in RecIds |-> r = "n1"]

\* Strings a caller may look a target up by; "zz" names nothing.
Lookups == RecIds \cup {RecName[r] : r \in RecIds} \cup {"zz"}
\* Provider names; "" is no provider.
Providers == {"", "vb"}

NoTarget == [inst |-> 0, provider |-> "", saves |-> 0]
Loaded == {r \in RecIds : targets[r].inst # 0}

NoPCall == [op |-> "", id |-> "", name |-> "", prov |-> "", shell |-> 0, rec |-> "",
            i |-> 0, snap |-> <<>>, acc |-> <<>>,
            opts |-> <<>>, applied |-> 0, oerrs |-> <<>>]

\* Target.Ref(): the reference of a target record.
RefOf(r) == [rid |-> r, name |-> RecName[r]]

\* A Project as loading leaves it: no Target loaded; its record lists the
\* references the Persistence Client returned, none or one.
ProjectInit ==
    /\ \E r \in SUBSET {"i1"} :
        /\ db = r
        /\ prefs = IF r = {} THEN <<>> ELSE <<RefOf("i1")>>
    /\ targets = [r \in RecIds |-> NoTarget]
    /\ pm = ""
    /\ nshell = 0
    /\ ppc = [p \in Callers |-> "idle"]
    /\ pcall = [p \in Callers |-> NoPCall]
    /\ pret = [p \in Callers |-> None]

\* The project left alone while the Factory runs.
ProjectIdle ==
    /\ db = {}
    /\ prefs = <<>>
    /\ targets = [r \in RecIds |-> NoTarget]
    /\ pm = ""
    /\ nshell = 0
    /\ ppc = [p \in Callers |-> "idle"]
    /\ pcall = [p \in Callers |-> NoPCall]
    /\ pret = [p \in Callers |-> None]

\* WithTargetRef: the record the Persistence Client finds for a reference,
\* by resource id when the reference has one that is persisted, else by
\* name; "" when there is none.
FindTarget(id, name) ==
    IF id # "" /\ id \in db THEN id
    ELSE IF name # "" /\ \E r \in db : RecName[r] = name
         THEN CHOOSE r \in db : RecName[r] = name
         ELSE ""

\* LoadTarget(WithTargetRef(ref)) called directly, with a reference by
\* resource id.
LoadTargetCall(p) ==
    /\ ppc[p] = "idle"
    /\ \E r \in RecIds :
        pcall' = [pcall EXCEPT ![p] = [NoPCall EXCEPT !.op = "LoadTarget", !.id = r]]
    /\ ppc' = [ppc EXCEPT ![p] = "lt_lock"]
    /\ UNCHANGED <<db, prefs, targets, pm, nshell, pret>>
    /\ UNCHANGED <<fvars, xvars>>

\* p.m.Lock(); the deferred Unlock runs at return (LoadTargetUnlock).
LoadTargetLock(p) ==
    /\ ppc[p] = "lt_lock"
    /\ pm = ""
    /\ pm' = p
    /\ ppc' = [ppc EXCEPT ![p] = "lt_build"]
    /\ UNCHANGED <<db, prefs, targets, nshell, pcall, pret>>
    /\ UNCHANGED <<fvars, xvars>>

RECURSIVE ApplyOptionsStopsAtFirst(_, _, _)
\* Mutant: the loop over the options ends at the first one that fails.
ApplyOptionsStopsAtFirst(results, i, acc) ==
    IF i > Len(results) THEN acc
    ELSE IF results[i] = "fail"
         THEN [applied |-> acc.applied + 1, errs |-> Append(acc.errs, i)]
         ELSE ApplyOptionsStopsAtFirst(results, i + 1,
                                       [acc EXCEPT !.applied = @ + 1])

RECURSIVE ApplyOptions(_, _, _)
\* for _, opt := range topts { if oerr := opt(t); oerr != nil {
\*   err = multierror.Append(err, oerr) } }
\* results: what each option returns, in the order given; acc: the options
\* applied so far and the positions of those whose error err holds.
ApplyOptions(results, i, acc) ==
    IF i > Len(results) THEN acc
    ELSE ApplyOptions(results, i + 1,
                      [applied |-> acc.applied + 1,
                       errs |-> IF results[i] = "fail"
                                THEN Append(acc.errs, i) ELSE acc.errs])

\* t = &Target{...}; the options are applied; the data directory is made.
\* The first option is WithTargetRef, which fails when the reference names no
\* persisted record; the call's other options follow it.  With every option
\* applied without error the data directory may fail.
LoadTargetBuild(p) ==
    /\ ppc[p] = "lt_build"
    /\ LET rec == FindTarget(pcall[p].id, pcall[p].name)
           a == ApplyOptions(<<IF rec = "" THEN "fail" ELSE "ok">> \o pcall[p].opts,
                             1, [applied |-> 0, errs |-> <<>>])
       IN \E fail \in BOOLEAN :
            IF a.errs # <<>> \/ fail
            THEN /\ pret' = [pret EXCEPT ![p] = Err]
                 /\ ppc' = [ppc EXCEPT ![p] = "lt_unlock"]
                 /\ pcall' = [pcall EXCEPT ![p].applied = a.applied,
                                           ![p].oerrs = a.errs]
                 /\ UNCHANGED nshell
            ELSE /\ nshell < MaxShells
                 /\ nshell' = nshell + 1
                 /\ pcall' = [pcall EXCEPT ![p].shell = nshell + 1, ![p].rec = rec,
                                           ![p].applied = a.applied,
                                           ![p].oerrs = a.errs]
                 /\ ppc' = [ppc EXCEPT ![p] = "lt_register"]
                 /\ UNCHANGED pret
    /\ UNCHANGED <<db, prefs, targets, pm>>
    /\ UNCHANGED <<fvars, xvars>>

\* Mutant: the already loaded Target gets one more save action before it is
\* returned.
LoadTargetRegisterAttachesAgain(p) ==
    /\ ppc[p] = "lt_register"
    /\ LET r == pcall[p].rec
       IN IF targets[r].inst # 0
          THEN /\ pret' = [pret EXCEPT ![p] = targets[r].inst]
               /\ targets' = [targets EXCEPT ![r].saves = @ + 1]
          ELSE /\ targets' = [targets EXCEPT ![r] =
                      [inst |-> pcall[p].shell, provider |-> pcall[p].prov, saves |-> 1]]
               /\ pret' = [pret EXCEPT ![p] = pcall[p].shell]
    /\ ppc' = [ppc EXCEPT ![p] = "lt_unlock"]
    /\ UNCHANGED <<db, prefs, pm, nshell, pcall>>
    /\ UNCHANGED <<fvars, xvars>>

\* Mutant: the new shell is registered without the already-loaded check.
LoadTargetRegisterReplaces(p) ==
    /\ ppc[p] = "lt_register"
    /\ targets' = [targets EXCEPT ![pcall[p].rec] =
          [inst |-> pcall[p].shell, provider |-> pcall[p].prov, saves |-> 1]]
    /\ pret' = [pret EXCEPT ![p] = pcall[p].shell]
    /\ ppc' = [ppc EXCEPT ![p] = "lt_unlock"]
    /\ UNCHANGED <<db, prefs, pm, nshell, pcall>>
    /\ UNCHANGED <<fvars, xvars>>

\* if target, ok := p.targets[t.target.ResourceId]; ok { return target, nil }
\* p.targets[t.target.ResourceId] = t; t.Closer(func() error { return t.Save() })
LoadTargetRegister(p) ==
    /\ ppc[p] = "lt_register"
    /\ LET r == pcall[p].rec
       IN IF targets[r].inst # 0
          THEN /\ pret' = [pret EXCEPT ![p] = targets[r].inst]
               /\ UNCHANGED targets
          ELSE /\ targets' = [targets EXCEPT ![r] =
                      [inst |-> pcall[p].shell, provider |-> pcall[p].prov, saves |-> 1]]
               /\ pret' = [pret EXCEPT ![p] = pcall[p].shell]
    /\ ppc' = [ppc EXCEPT ![p] = "lt_unlock"]
    /\ UNCHANGED <<db, prefs, pm, nshell, pcall>>
    /\ UNCHANGED <<fvars, xvars>>

\* defer p.m.Unlock(), and LoadTarget's caller goes on:
\*   Targets() returns the error, or appends the Target and takes the next
\*   reference; TestTarget goes on to target.Ref(), which panics on the nil
\*   Target of a failed load.
LoadTargetUnlock(p) ==
    /\ ppc[p] = "lt_unlock"
    /\ pm' = ""
    /\ CASE pcall[p].op = "Targets" /\ pret[p] # Err ->
               LET c == pcall[p]
               IN IF c.i < Len(c.snap)
                  THEN /\ pcall' = [pcall EXCEPT ![p] =
                              [c EXCEPT !.acc = Append(c.acc, pret[p]), !.i = c.i + 1,
                                        !.id = c.snap[c.i + 1].rid,
                                        !.name = c.snap[c.i + 1].name,
                                        !.shell = 0, !.rec = "",
                                        !.applied = 0, !.oerrs = <<>>]]
                       /\ ppc' = [ppc EXCEPT ![p] = "lt_lock"]
                       /\ pret' = [pret EXCEPT ![p] = None]
                  ELSE /\ pcall' = [pcall EXCEPT ![p].acc = Append(c.acc, pret[p])]
                       /\ ppc' = [ppc EXCEPT ![p] = "ret"]
                       /\ pret' = [pret EXCEPT ![p] = None]
         [] pcall[p].op = "TestTarget" ->
               /\ ppc' = [ppc EXCEPT ![p] = IF pret[p] = Err THEN "panic" ELSE "tt_append"]
               /\ UNCHANGED <<pcall, pret>>
         [] OTHER ->
               /\ ppc' = [ppc EXCEPT ![p] = "ret"]
               /\ UNCHANGED <<pcall, pret>>
    /\ UNCHANGED <<db, prefs, targets, nshell>>
    /\ UNCHANGED <<fvars, xvars>>

\* --------------------------------------------------------- Project.Target
TargetCall(p) ==
    /\ ppc[p] = "idle"
    /\ \E nameOrId \in Lookups, provider \in Providers :
        pcall' = [pcall EXCEPT ![p] =
            [NoPCall EXCEPT !.op = "Target", !.id = nameOrId, !.name = nameOrId,
                            !.prov = provider]]
    /\ ppc' = [ppc EXCEPT ![p] = "t_lookup"]
    /\ UNCHANGED <<db, prefs, targets, pm, nshell, pret>>
    /\ UNCHANGED <<fvars, xvars>>

\* The loaded Targets the scan of p.targets can stop at: those whose name or
\* resource id is nameOrId.  The map is unordered, so any of them may come
\* first.
ScanMatches(nameOrId) ==
    {r \in Loaded : RecName[r] = nameOrId \/ r = nameOrId}

\* Mutant: the scan runs without the exact-key lookup before it.
TargetLookupScanFirst(p) ==
    /\ ppc[p] = "t_lookup"
    /\ LET k == pcall[p].id
           provider == pcall[p].prov
       IN IF ScanMatches(k) # {}
          THEN \E r \in ScanMatches(k) :
               /\ targets' = IF RecName[r] = k /\ provider # "" /\ ~RecActive[r]
                             THEN [targets EXCEPT ![r].provider = provider]
                             ELSE targets
               /\ pret' = [pret EXCEPT ![p] = targets[r].inst]
               /\ ppc' = [ppc EXCEPT ![p] = "ret"]
          ELSE /\ ppc' = [ppc EXCEPT ![p] = "lt_lock"]
               /\ UNCHANGED <<targets, pret>>
    /\ UNCHANGED <<db, prefs, pm, nshell, pcall>>
    /\ UNCHANGED <<fvars, xvars>>

\* Mutant: a name match overwrites the provider whatever the Target's state.
TargetLookupNoActiveGuard(p) ==
    /\ ppc[p] = "t_lookup"
    /\ LET k == pcall[p].id
           provider == pcall[p].prov
       IN IF k \in Loaded
          THEN /\ pret' = [pret EXCEPT ![p] = targets[k].inst]
               /\ ppc' = [ppc EXCEPT ![p] = "ret"]
               /\ UNCHANGED targets
          ELSE IF ScanMatches(k) # {}
          THEN \E r \in ScanMatches(k) :
               /\ targets' = IF RecName[r] = k /\ provider # ""
                             THEN [targets EXCEPT ![r].provider = provider]
                             ELSE targets
               /\ pret' = [pret EXCEPT ![p] = targets[r].inst]
               /\ ppc' = [ppc EXCEPT ![p] = "ret"]
          ELSE /\ ppc' = [ppc EXCEPT ![p] = "lt_lock"]
               /\ UNCHANGED <<targets, pret>>
    /\ UNCHANGED <<db, prefs, pm, nshell, pcall>>
    /\ UNCHANGED <<fvars, xvars>>

\* if t, ok := p.targets[nameOrId]; ok { return t, nil }
\* for _, t := range p.targets { name match: provider guard, return t;
\*                               resource id match: return t }
\* otherwise LoadTarget(WithTargetRef(Name: nameOrId, ResourceId: nameOrId),
\*                      WithProvider(provider))
TargetLookup(p) ==
    /\ ppc[p] = "t_lookup"
    /\ LET k == pcall[p].id
           provider == pcall[p].prov
       IN IF k \in Loaded
          THEN /\ pret' = [pret EXCEPT ![p] = targets[k].inst]
               /\ ppc' = [ppc EXCEPT ![p] = "ret"]
               /\ UNCHANGED targets
          ELSE IF ScanMatches(k) # {}
          THEN \E r \in ScanMatches(k) :
               /\ targets' = IF RecName[r] = k /\ provider # "" /\ ~RecActive[r]
                             THEN [targets EXCEPT ![r].provider = provider]
                             ELSE targets
               /\ pret' = [pret EXCEPT ![p] = targets[r].inst]
               /\ ppc' = [ppc EXCEPT ![p] = "ret"]
          ELSE /\ ppc' = [ppc EXCEPT ![p] = "lt_lock"]
               /\ UNCHANGED <<targets, pret>>
    /\ UNCHANGED <<db, prefs, pm, nshell, pcall>>
    /\ UNCHANGED <<fvars, xvars>>

\* ------------------------------------- TargetIds / TargetNames / Targets
RECURSIVE TargetIdsOfLoaded(_)
\* Mutant: the ids are those of the references whose Target is in the
\* in-memory target map.
TargetIdsOfLoaded(refs) ==
    IF refs = <<>> THEN <<>>
    ELSE (IF Head(refs).rid \in Loaded THEN <<Head(refs).rid>> ELSE <<>>)
             \o TargetIdsOfLoaded(Tail(refs))

RECURSIVE TargetIds(_)
\* for _, t := range p.project.Targets { ids = append(ids, t.ResourceId) }
TargetIds(refs) ==
    IF refs = <<>> THEN <<>> ELSE <<Head(refs).rid>> \o TargetIds(Tail(refs))

RECURSIVE TargetNames(_)
\* for _, t := range p.project.Targets { names = append(names, t.Name) }
TargetNames(refs) ==
    IF refs = <<>> THEN <<>> ELSE <<Head(refs).name>> \o TargetNames(Tail(refs))

TargetIdsCall(p) ==
    /\ ppc[p] = "idle"
    /\ pcall' = [pcall EXCEPT ![p] =
          [NoPCall EXCEPT !.op = "TargetIds", !.acc = TargetIds(prefs)]]
    /\ ppc' = [ppc EXCEPT ![p] = "ret"]
    /\ UNCHANGED <<db, prefs, targets, pm, nshell, pret>>
    /\ UNCHANGED <<fvars, xvars>>

TargetNamesCall(p) ==
    /\ ppc[p] = "idle"
    /\ pcall' = [pcall EXCEPT ![p] =
          [NoPCall EXCEPT !.op = "TargetNames", !.acc = TargetNames(prefs)]]
    /\ ppc' = [ppc EXCEPT ![p] = "ret"]
    /\ UNCHANGED <<db, prefs, targets, pm, nshell, pret>>
    /\ UNCHANGED <<fvars, xvars>>

\* for _, ref := range p.project.Targets { t, err := p.LoadTarget(WithTargetRef(ref)) ... }
\* The range runs over the list as it is when the loop starts.
TargetsCall(p) ==
    /\ ppc[p] = "idle"
    /\ IF prefs = <<>>
       THEN /\ pcall' = [pcall EXCEPT ![p] = [NoPCall EXCEPT !.op = "Targets"]]
            /\ ppc' = [ppc EXCEPT ![p] = "ret"]
       ELSE /\ pcall' = [pcall EXCEPT ![p] =
                  [NoPCall EXCEPT !.op = "Targets", !.snap = prefs, !.i = 1,
                                  !.id = prefs[1].rid, !.name = prefs[1].name]]
            /\ ppc' = [ppc EXCEPT ![p] = "lt_lock"]
    /\ UNCHANGED <<db, prefs, targets, pm, nshell, pret>>
    /\ UNCHANGED <<fvars, xvars>>

\* ------------------------------------------------------------ TestTarget
\* The test's own goroutine upserts the record and loads it by name.
TestTargetCall(p) ==
    /\ p = "test"
    /\ ppc[p] = "idle"
    /\ Len(prefs) < MaxRefs
    /\ \E tt \in RecIds :
        /\ db' = db \cup {tt}
        /\ pcall' = [pcall EXCEPT ![p] =
              [NoPCall EXCEPT !.op = "TestTarget", !.name = RecName[tt]]]
    /\ ppc' = [ppc EXCEPT ![p] = "lt_lock"]
    /\ UNCHANGED <<prefs, targets, pm, nshell, pret>>
    /\ UNCHANGED <<fvars, xvars>>

\* tp.project.Targets = append(tp.project.Targets, target.Ref())
TestTargetAppend(p) ==
    /\ ppc[p] = "tt_append"
    /\ prefs' = Append(prefs, RefOf(pcall[p].rec))
    /\ ppc' = [ppc EXCEPT ![p] = "ret"]
    /\ UNCHANGED <<db, targets, pm, nshell, pcall, pret>>
    /\ UNCHANGED <<fvars, xvars>>

\* The caller takes the result.
Return(p) ==
    /\ ppc[p] = "ret"
    /\ ppc' = [ppc EXCEPT ![p] = "idle"]
    /\ pcall' = [pcall EXCEPT ![p] = NoPCall]
    /\ pret' = [pret EXCEPT ![p] = None]
    /\ UNCHANGED <<db, prefs, targets, pm, nshell>>
    /\ UNCHANGED <<fvars, xvars>>

ProjectNext ==
    \E p \in Callers :
        \/ LoadTargetCall(p)
        \/ LoadTargetLock(p)
        \/ LoadTargetBuild(p)
        \/ LoadTargetRegister(p)
        \/ LoadTargetUnlock(p)
        \/ TargetCall(p)
        \/ TargetLookup(p)
        \/ TargetIdsCall(p)
        \/ TargetNamesCall(p)
        \/ TargetsCall(p)
        \/ TestTargetCall(p)
        \/ TestTargetAppend(p)
        \/ Return(p)

\* ------------------------------------------- Project.Closer / Project.Close
\* Number of Closer calls on the Project.
MaxClosers == 2

\* A cleanup action is known by its number.
CloserIds == 1..MaxClosers

\* No cleanup action registered, nothing closed, the Project in its Basis.
CloseIdle ==
    /\ closers = <<>>
    /\ creg = {}
    /\ clog = <<>>
    /\ inBasis = TRUE

\* The Project is in use: Close has not been called.  Close is called when
\* its owner has finished with the Project, so no call starts after it.
Open == inBasis /\ \A q \in Callers : pcall[q].op # "Close"

\* The cleanup actions some Closer call is about to append.
Pending == {pcall[q].i : q \in {c \in Callers : pcall[c].op = "Closer"}}

\* A caller loads a Target of the Project in use.
OpenLoadTargetCall(p) ==
    /\ Open
    /\ LoadTargetCall(p)

\* Closer(c): p.closers is read for the append; no lock is taken.
CloserCall(p) ==
    /\ ppc[p] = "idle"
    /\ Open
    /\ \E c \in CloserIds \ (creg \cup Pending) :
        /\ \A d \in CloserIds \ (creg \cup Pending) : c <= d
        /\ pcall' = [pcall EXCEPT ![p] =
              [NoPCall EXCEPT !.op = "Closer", !.i = c, !.snap = closers]]
    /\ ppc' = [ppc EXCEPT ![p] = "cr_append"]
    /\ UNCHANGED <<db, prefs, targets, pm, nshell, pret>>
    /\ UNCHANGED <<fvars, dvars, cvars, ivars, rvars>>

\* p.closers = append(p.closers, c): the list that was read, with c added,
\* is stored.
CloserAppend(p) ==
    /\ ppc[p] = "cr_append"
    /\ closers' = Append(pcall[p].snap, pcall[p].i)
    /\ creg' = creg \cup {pcall[p].i}
    /\ ppc' = [ppc EXCEPT ![p] = "ret"]
    /\ UNCHANGED <<db, prefs, targets, pm, nshell, pcall, pret>>
    /\ UNCHANGED <<clog, inBasis>>
    /\ UNCHANGED <<fvars, dvars, ivars, rvars>>

\* Close(): called once, by a caller that has the Project to itself.
ProjectCloseCall(p) ==
    /\ ppc[p] = "idle"
    /\ Open
    /\ \A q \in Callers : ppc[q] = "idle"
    /\ pcall' = [pcall EXCEPT ![p] = [NoPCall EXCEPT !.op = "Close"]]
    /\ ppc' = [ppc EXCEPT ![p] = "cl_targets"]
    /\ UNCHANGED <<db, prefs, targets, pm, nshell, pret>>
    /\ UNCHANGED <<fvars, dvars, cvars, ivars, rvars>>

\* The loaded Targets the range over p.targets has not yet come to.
ToClose == Loaded \ {clog[k].rec : k \in 1..Len(clog)}

\* Target.Close(): the Target's cleanup actions run, each of them its Save.
TargetClose(r, fail) ==
    [kind |-> "target", rec |-> r, id |-> 0, shell |-> targets[r].inst,
     saves |-> targets[r].saves, failed |-> fail]

\* Mutant: the first failure ends Close.
ProjectCloseTargetStops(p) ==
    /\ ppc[p] = "cl_targets"
    /\ IF ToClose # {}
       THEN \E r \in ToClose, fail \in BOOLEAN :
            /\ clog' = Append(clog, TargetClose(r, fail))
            /\ pcall' = [pcall EXCEPT ![p].acc =
                  IF fail THEN Append(@, TargetClose(r, fail)) ELSE @]
            /\ pret' = [pret EXCEPT ![p] = IF fail THEN Err ELSE @]
            /\ ppc' = [ppc EXCEPT ![p] = IF fail THEN "ret" ELSE @]
       ELSE /\ pcall' = [pcall EXCEPT ![p].snap = closers, ![p].i = 1]
            /\ ppc' = [ppc EXCEPT ![p] = "cl_closers"]
            /\ UNCHANGED <<clog, pret>>
    /\ UNCHANGED <<db, prefs, targets, pm, nshell>>
    /\ UNCHANGED <<closers, creg, inBasis>>
    /\ UNCHANGED <<fvars, dvars, ivars, rvars>>

\* for name, m := range p.targets { if cerr := m.Close(); cerr != nil {
\*     err = multierror.Append(err, cerr) } }
\* The map is unordered: any Target not yet closed may come next.  When the
\* range ends, the range over p.closers begins.
ProjectCloseTarget(p) ==
    /\ ppc[p] = "cl_targets"
    /\ IF ToClose # {}
       THEN \E r \in ToClose, fail \in BOOLEAN :
            /\ clog' = Append(clog, TargetClose(r, fail))
            /\ pcall' = [pcall EXCEPT ![p].acc =
                  IF fail THEN Append(@, TargetClose(r, fail)) ELSE @]
            /\ UNCHANGED ppc
       ELSE /\ pcall' = [pcall EXCEPT ![p].snap = closers, ![p].i = 1]
            /\ ppc' = [ppc EXCEPT ![p] = "cl_closers"]
            /\ UNCHANGED clog
    /\ UNCHANGED <<db, prefs, targets, pm, nshell, pret>>
    /\ UNCHANGED <<closers, creg, inBasis>>
    /\ UNCHANGED <<fvars, dvars, ivars, rvars>>

\* A cleanup action of the Project, run.
CloserRun(c, fail) ==
    [kind |-> "closer", rec |-> "", id |-> c, shell |-> 0, saves |-> 0,
     failed |-> fail]

\* for _, f := range p.closers { if cerr := f(); cerr != nil {
\*     err = multierror.Append(err, cerr) } }
ProjectCloseCloser(p) ==
    /\ ppc[p] = "cl_closers"
    /\ pcall[p].i <= Len(pcall[p].snap)
    /\ \E fail \in BOOLEAN :
        LET e == CloserRun(pcall[p].snap[pcall[p].i], fail)
        IN /\ clog' = Append(clog, e)
           /\ pcall' = [pcall EXCEPT ![p].i = @ + 1,
                                     ![p].acc = IF fail THEN Append(@, e) ELSE @]
    /\ UNCHANGED <<db, prefs, targets, pm, nshell, ppc, pret>>
    /\ UNCHANGED <<closers, creg, inBasis>>
    /\ UNCHANGED <<fvars, dvars, ivars, rvars>>

\* delete(p.basis.projects, p.Name()); return
ProjectCloseRemove(p) ==
    /\ ppc[p] = "cl_closers"
    /\ pcall[p].i > Len(pcall[p].snap)
    /\ inBasis' = FALSE
    /\ pret' = [pret EXCEPT ![p] = IF pcall[p].acc = <<>> THEN None ELSE Err]
    /\ ppc' = [ppc EXCEPT ![p] = "ret"]
    /\ UNCHANGED <<db, prefs, targets, pm, nshell, pcall>>
    /\ UNCHANGED <<closers, creg, clog>>
    /\ UNCHANGED <<fvars, dvars, ivars, rvars>>

\* The caller of Close keeps the result: the Project is closed.
Closed(p) == pcall[p].op = "Close" /\ ppc[p] = "ret"

\* A Project whose two target records are persisted and referenced.
CloseInit ==
    /\ db = RecIds
    /\ prefs = <<RefOf("i1"), RefOf("n1")>>
    /\ targets = [r \in RecIds |-> NoTarget]
    /\ pm = ""
    /\ nshell = 0
    /\ ppc = [p \in Callers |-> "idle"]
    /\ pcall = [p \in Callers |-> NoPCall]
    /\ pret = [p \in Callers |-> None]
    /\ CloseIdle

CloseNext ==
    \E p \in Callers :
        \/ OpenLoadTargetCall(p)
        \/ LoadTargetLock(p)
        \/ LoadTargetBuild(p)
        \/ LoadTargetRegister(p)
        \/ LoadTargetUnlock(p)
        \/ CloserCall(p)
        \/ CloserAppend(p)
        \/ ProjectCloseCall(p)
        \/ ProjectCloseTarget(p)
        \/ ProjectCloseCloser(p)
        \/ ProjectCloseRemove(p)
        \/ Return(p)

\* ------------------------------------------------- Project.DefaultProvider
\* Provider plugin names.
ProviderNames == {"virtualbox", "vmware"}
\* Number of machine configurations of the Project's configuration.
MaxMachines == 2
\* Number of comma-separated entries of VAGRANT_PREFERRED_PROVIDERS.
MaxPreferred == 2

SeqsUpTo(S, n) == UNION {[1..k -> S] : k \in 0..n}

\* GetName() of the i-th machine configuration.
MName(i) == IF i = 1 THEN "m1" ELSE IF i = 2 THEN "m2" ELSE "m3"

\* p.project.GetConfiguration().GetMachineConfigs(): each machine declares
\* no provider or one. A machine that declares none adds nothing to the
\* configured list, so a shorter configuration is one of these with such
\* machines in it.
MachineConfigs ==
    {[i \in 1..MaxMachines |-> [name |-> MName(i), providers |-> ps[i]]] :
        ps \in [1..MaxMachines -> SeqsUpTo(ProviderNames, 1)]}

\* What the plugin manager answers for a listed provider plugin when
\* CheckUsable asks: Usable() is true, Usable() is false, or GetPlugin or
\* Usable() returns an error.
Answers == {"usable", "unusable", "error"}

\* p.basis.plugins.ListPlugins("provider"): the installed provider plugins in
\* listing order, each name once.
PluginLists ==
    {pl \in SeqsUpTo([name : ProviderNames, ans : Answers], Cardinality(ProviderNames)) :
        \A i, j \in 1..Len(pl) : i # j => pl[i].name # pl[j].name}

\* Entries of strings.Split(os.Getenv("VAGRANT_PREFERRED_PROVIDERS"), ","):
\* Split yields at least one entry, the empty one for an unset variable.
RawPreferred == {"", "virtualbox", " vmware "}
PreferredEnvs == SeqsUpTo(RawPreferred, MaxPreferred) \ {<<>>}

\* strings.TrimSpace
TrimSpace(e) == IF e = " vmware " THEN "vmware" ELSE e

\* What the plugin manager is asked and answers in one call: a failed
\* listing lists nothing, and a plugin that is not asked (CheckUsable unset)
\* has no answer to vary.
Listings ==
    {l \in [CheckUsable : BOOLEAN, listErr : BOOLEAN, plugins : PluginLists] :
        /\ l.listErr => l.plugins = <<>>
        /\ ~l.CheckUsable => \A i \in 1..Len(l.plugins) : l.plugins[i].ans = "usable"}

\* The options, the two environment variables and the Project's machine
\* configurations of one DefaultProvider call. opts.ForceDefault is read only
\* when VAGRANT_DEFAULT_PROVIDER is set (defaultProvider != "" && ...).
DPOptions ==
    {o \in [envDefault : ProviderNames \cup {""},
            ForceDefault : BOOLEAN,
            MachineName : {"", "m2"},
            excluded : SUBSET ProviderNames,
            machines : MachineConfigs,
            envPreferred : PreferredEnvs] :
        o.envDefault = "" => ~o.ForceDefault}

\* One DefaultProvider call: what it is given and what the plugin manager
\* answers.
DPInput(o, l) ==
    [envDefault |-> o.envDefault, ForceDefault |-> o.ForceDefault,
     MachineName |-> o.MachineName, excluded |-> o.excluded,
     CheckUsable |-> l.CheckUsable, machines |-> o.machines,
     listErr |-> l.listErr, plugins |-> l.plugins,
     envPreferred |-> o.envPreferred]

NoDPIn == [envDefault |-> "", ForceDefault |-> FALSE, MachineName |-> "",
           excluded |-> {}, CheckUsable |-> FALSE, machines |-> <<>>,
           listErr |-> FALSE, plugins |-> <<>>, envPreferred |-> <<"">>]

\* No call made yet.
NoDPOut == [done |-> FALSE, name |-> "", err |-> "", tier |-> 0, listed |-> FALSE,
            fetched |-> 0, configured |-> <<>>, usable |-> <<>>, preferred |-> <<>>]

InSeq(x, s) == \E i \in 1..Len(s) : s[i] = x

RECURSIVE ConfigProviders(_, _)
\* for _, m := range MachineConfigs { skip other machines when MachineName is
\*   given; for _, p := range m.GetConfigVm().GetProviders() { append } }
ConfigProviders(ms, machineName) ==
    IF ms = <<>> THEN <<>>
    ELSE (IF machineName # "" /\ machineName # Head(ms).name
          THEN <<>> ELSE Head(ms).providers)
         \o ConfigProviders(Tail(ms), machineName)

RECURSIVE UsableProviders(_, _, _, _)
\* for _, pp := range pluginProviders { skip excluded; when CheckUsable: fetch
\*   the plugin, return its error or Usable()'s, skip when not usable; append }
\* acc: the list so far, whether an error ended the loop, the plugins fetched.
UsableProviders(pls, excluded, checkUsable, acc) ==
    IF pls = <<>> THEN acc
    ELSE LET pp == Head(pls)
         IN IF pp.name \in excluded
            THEN UsableProviders(Tail(pls), excluded, checkUsable, acc)
            ELSE IF ~checkUsable
            THEN UsableProviders(Tail(pls), excluded, checkUsable,
                                 [acc EXCEPT !.list = Append(@, pp.name)])
            ELSE IF pp.ans = "error"
            THEN [acc EXCEPT !.err = TRUE, !.fetched = @ + 1]
            ELSE IF pp.ans = "unusable"
            THEN UsableProviders(Tail(pls), excluded, checkUsable,
                                 [acc EXCEPT !.fetched = @ + 1])
            ELSE UsableProviders(Tail(pls), excluded, checkUsable,
                                 [acc EXCEPT !.fetched = @ + 1,
                                             !.list = Append(@, pp.name)])

RECURSIVE PreferredProviders(_)
\* the entries trimmed, the empty ones dropped, the order kept
PreferredProviders(raw) ==
    IF raw = <<>> THEN <<>>
    ELSE (IF TrimSpace(Head(raw)) # "" THEN <<TrimSpace(Head(raw))>> ELSE <<>>)
         \o PreferredProviders(Tail(raw))

RECURSIVE FirstOfIn(_, _, _)
\* for _, a := range as { for _, b := range bs { if a == b {
\*     for _, c := range cs { if a == c { return a } } } } }; "" when the
\* loops end without a return.
FirstOfIn(as, bs, cs) ==
    IF as = <<>> THEN ""
    ELSE IF InSeq(Head(as), bs) /\ InSeq(Head(as), cs) THEN Head(as)
    ELSE FirstOfIn(Tail(as), bs, cs)

\* Mutant: the forced override is returned only when it is not excluded.
ForcedDefaultUnlessExcluded(in) ==
    in.envDefault # "" /\ in.ForceDefault /\ in.envDefault \notin in.excluded

\* if defaultProvider != "" && opts.ForceDefault { return defaultProvider, nil }
ForcedDefault(in) ==
    in.envDefault # "" /\ in.ForceDefault

\* Mutant: the preferred list's order decides among the configured providers.
ConfiguredPreferredByPreference(configured, usable, preferred) ==
    FirstOfIn(preferred, usable, configured)

\* 2.5: the first configured provider that is usable and preferred, "" if none.
ConfiguredPreferred(configured, usable, preferred) ==
    FirstOfIn(configured, usable, preferred)

\* Mutant: step 3 returns the first configured provider without looking for
\* it in the usable list.
SelectProviderConfiguredUnchecked(defaultProvider, configured, usable, preferred) ==
    IF InSeq(defaultProvider, usable)
    THEN [name |-> defaultProvider, err |-> "", tier |-> 4]
    ELSE IF ConfiguredPreferred(configured, usable, preferred) # ""
    THEN [name |-> ConfiguredPreferred(configured, usable, preferred),
          err |-> "", tier |-> 6]
    ELSE IF Len(configured) > 0
    THEN [name |-> configured[1], err |-> "", tier |-> 7]
    ELSE IF FirstOfIn(preferred, usable, preferred) # ""
    THEN [name |-> FirstOfIn(preferred, usable, preferred), err |-> "", tier |-> 8]
    ELSE IF Len(usable) > 0
    THEN [name |-> usable[1], err |-> "", tier |-> 9]
    ELSE [name |-> "", err |-> "nodefault", tier |-> 10]

\* Mutant: the preferred list is scanned before the configuration.
SelectProviderPreferredFirst(defaultProvider, configured, usable, preferred) ==
    IF InSeq(defaultProvider, usable)
    THEN [name |-> defaultProvider, err |-> "", tier |-> 4]
    ELSE IF ConfiguredPreferred(configured, usable, preferred) # ""
    THEN [name |-> ConfiguredPreferred(configured, usable, preferred),
          err |-> "", tier |-> 6]
    ELSE IF FirstOfIn(preferred, usable, preferred) # ""
    THEN [name |-> FirstOfIn(preferred, usable, preferred), err |-> "", tier |-> 8]
    ELSE IF FirstOfIn(configured, usable, configured) # ""
    THEN [name |-> FirstOfIn(configured, usable, configured), err |-> "", tier |-> 7]
    ELSE IF Len(usable) > 0
    THEN [name |-> usable[1], err |-> "", tier |-> 9]
    ELSE [name |-> "", err |-> "nodefault", tier |-> 10]

\* The returns after the usable list is collected, numbered as the steps of
\* the selection: the default found in the usable list (4), 2.5 (6), 3 (7),
\* 3.5 (8), 4 (9), errors.New("No default provider.") (10).
SelectProvider(defaultProvider, configured, usable, preferred) ==
    IF InSeq(defaultProvider, usable)
    THEN [name |-> defaultProvider, err |-> "", tier |-> 4]
    ELSE IF ConfiguredPreferred(configured, usable, preferred) # ""
    THEN [name |-> ConfiguredPreferred(configured, usable, preferred),
          err |-> "", tier |-> 6]
    ELSE IF FirstOfIn(configured, usable, configured) # ""
    THEN [name |-> FirstOfIn(configured, usable, configured), err |-> "", tier |-> 7]
    ELSE IF FirstOfIn(preferred, usable, preferred) # ""
    THEN [name |-> FirstOfIn(preferred, usable, preferred), err |-> "", tier |-> 8]
    ELSE IF Len(usable) > 0
    THEN [name |-> usable[1], err |-> "", tier |-> 9]
    ELSE [name |-> "", err |-> "nodefault", tier |-> 10]

\* DefaultProvider(opts): the result, with what the call listed, fetched and
\* collected on its way.
DefaultProvider(in) ==
    IF ForcedDefault(in)
    THEN [NoDPOut EXCEPT !.done = TRUE, !.name = in.envDefault, !.tier = 1]
    ELSE LET configured == ConfigProviders(in.machines, in.MachineName)
             out == [NoDPOut EXCEPT !.done = TRUE, !.listed = TRUE,
                                    !.configured = configured]
         IN IF in.listErr
            THEN [out EXCEPT !.err = "plugin"]
            ELSE LET u == UsableProviders(in.plugins, in.excluded, in.CheckUsable,
                                          [list |-> <<>>, err |-> FALSE, fetched |-> 0])
                 IN IF u.err
                    THEN [out EXCEPT !.err = "plugin", !.fetched = u.fetched,
                                     !.usable = u.list]
                    ELSE LET preferred == PreferredProviders(in.envPreferred)
                             r == SelectProvider(in.envDefault, configured, u.list,
                                                 preferred)
                         IN [out EXCEPT !.name = r.name, !.err = r.err,
                                        !.tier = r.tier, !.fetched = u.fetched,
                                        !.usable = u.list,
                                        !.preferred = IF r.tier = 4 THEN <<>>
                                                      ELSE preferred]

\* A caller asks the Project for its default provider.
DefaultProviderCall ==
    /\ ~dpout.done
    /\ dpout' = DefaultProvider(dpin)
    /\ UNCHANGED <<dpin, fvars, pvars, cvars, ivars, rvars>>

\* ------------------------------------ Project.InitTargets / Run / Save
\* Entries of p.project.Configuration.MachineConfigs: a machine by its name,
\* or a nil entry.
MachineEntries == {RecName[r] : r \in RecIds} \cup {"nil"}

\* No Configuration, or no MachineConfigs in it.
NoCfg == [present |-> FALSE, machines |-> <<>>]

Cfgs == {NoCfg} \cup
        {[present |-> TRUE, machines |-> ms] : ms \in SeqsUpTo(MachineEntries, MaxMachines)}

\* The target record the server keeps for a machine name.
MachineRec(name) == CHOOSE r \in RecIds : RecName[r] = name

\* A call of the Persistence Client, as the caller's call log keeps it.
PCCall(call, name, ok) == [call |-> call, name |-> name, ok |-> ok]

NoRun == [init |-> "", component |-> FALSE, invoked |-> FALSE, hasResult |-> FALSE,
          result |-> 0, err |-> "", ret |-> "", exitCode |-> 0, reterr |-> "",
          retstatus |-> FALSE]

\* A Project without machine configurations, on which nothing is run.
InitIdle ==
    /\ cfg = NoCfg
    /\ srefs = <<>>
    /\ run = [p \in Callers |-> NoRun]

RECURSIVE NextEntry(_, _)
\* for _, t := range MachineConfigs { if t == nil { continue } ... }: the
\* next entry at or after position i that is not nil, 0 when there is none.
NextEntry(ms, i) ==
    IF i > Len(ms) THEN 0
    ELSE IF ms[i] # "nil" THEN i
    ELSE NextEntry(ms, i + 1)

InitTargetsCall(p) ==
    /\ ppc[p] = "idle"
    /\ pcall' = [pcall EXCEPT ![p] = [NoPCall EXCEPT !.op = "InitTargets"]]
    /\ ppc' = [ppc EXCEPT ![p] = "it_lock"]
    /\ UNCHANGED <<db, prefs, targets, pm, nshell, pret>>
    /\ UNCHANGED <<fvars, dvars, cvars, ivars, rvars>>

\* p.m.Lock(); return at once without Configuration or MachineConfigs; else
\* the range over the machine configurations begins.
InitTargetsLock(p) ==
    /\ ppc[p] = "it_lock"
    /\ pm = ""
    /\ pm' = p
    /\ IF cfg.present /\ NextEntry(cfg.machines, 1) # 0
       THEN /\ pcall' = [pcall EXCEPT ![p].i = NextEntry(cfg.machines, 1),
                                      ![p].snap = cfg.machines]
            /\ ppc' = [ppc EXCEPT ![p] = "it_upsert"]
       ELSE /\ ppc' = [ppc EXCEPT ![p] = "it_unlock"]
            /\ UNCHANGED pcall
    /\ UNCHANGED <<db, prefs, targets, nshell, pret>>
    /\ UNCHANGED <<fvars, dvars, cvars, ivars, rvars>>

\* What UpsertTarget does at the server: the record exists, and the
\* Project's record references it.
Upserted(name) ==
    LET r == MachineRec(name)
    IN /\ db' = db \cup {r}
       /\ srefs' = IF InSeq(RefOf(r), srefs) THEN srefs ELSE Append(srefs, RefOf(r))

\* Mutant: a failed upsert is collected and the range goes on.
InitTargetsUpsertGoesOn(p) ==
    /\ ppc[p] = "it_upsert"
    /\ LET c == pcall[p]
           name == c.snap[c.i]
           next == NextEntry(c.snap, c.i + 1)
       IN \E ok \in BOOLEAN :
            /\ IF ok THEN Upserted(name) ELSE UNCHANGED <<db, srefs>>
            /\ pcall' = [pcall EXCEPT ![p].acc = Append(@, PCCall("UpsertTarget", name, ok)),
                                      ![p].i = IF next # 0 THEN next ELSE @]
            /\ pret' = [pret EXCEPT ![p] = IF ok THEN @ ELSE Err]
            /\ ppc' = [ppc EXCEPT ![p] = IF next # 0 THEN "it_upsert" ELSE "it_refresh"]
    /\ UNCHANGED <<prefs, targets, pm, nshell>>
    /\ UNCHANGED <<cfg, run>>
    /\ UNCHANGED <<fvars, dvars, cvars, rvars>>

\* _, err = p.Client().UpsertTarget(...); if err != nil { return }
\* updated = true; after the last entry: if updated { refreshProject() }
InitTargetsUpsert(p) ==
    /\ ppc[p] = "it_upsert"
    /\ LET c == pcall[p]
           name == c.snap[c.i]
           next == NextEntry(c.snap, c.i + 1)
       IN \E ok \in BOOLEAN :
            /\ IF ok THEN Upserted(name) ELSE UNCHANGED <<db, srefs>>
            /\ pcall' = [pcall EXCEPT ![p].acc = Append(@, PCCall("UpsertTarget", name, ok)),
                                      ![p].i = IF ok /\ next # 0 THEN next ELSE @]
            /\ pret' = [pret EXCEPT ![p] = IF ok THEN @ ELSE Err]
            /\ ppc' = [ppc EXCEPT ![p] = IF ~ok THEN "it_unlock"
                                         ELSE IF next # 0 THEN "it_upsert"
                                         ELSE "it_refresh"]
    /\ UNCHANGED <<prefs, targets, pm, nshell>>
    /\ UNCHANGED <<cfg, run>>
    /\ UNCHANGED <<fvars, dvars, cvars, rvars>>

\* refreshProject(): FindProject; p.project = result.Project unless it failed.
InitTargetsRefresh(p) ==
    /\ ppc[p] = "it_refresh"
    /\ \E ok \in BOOLEAN :
        /\ prefs' = IF ok THEN srefs ELSE prefs
        /\ pret' = [pret EXCEPT ![p] = IF ok THEN None ELSE Err]
        /\ pcall' = [pcall EXCEPT ![p].acc = Append(@, PCCall("FindProject", "", ok))]
    /\ ppc' = [ppc EXCEPT ![p] = "it_unlock"]
    /\ UNCHANGED <<db, targets, pm, nshell>>
    /\ UNCHANGED <<fvars, dvars, cvars, ivars, rvars>>

\* defer p.m.Unlock(); Run goes on: if err = p.InitTargets(); err != nil { return err }
InitTargetsUnlock(p) ==
    /\ ppc[p] = "it_unlock"
    /\ pm' = ""
    /\ IF pcall[p].op = "Run"
       THEN /\ run' = [run EXCEPT ![p].init = IF pret[p] = Err THEN "err" ELSE "ok",
                                  ![p].ret = IF pret[p] = Err THEN "initerr" ELSE @]
            /\ ppc' = [ppc EXCEPT ![p] = IF pret[p] = Err THEN "run_ret" ELSE "run_component"]
       ELSE /\ ppc' = [ppc EXCEPT ![p] = "ret"]
            /\ UNCHANGED run
    /\ UNCHANGED <<db, prefs, targets, nshell, pcall, pret>>
    /\ UNCHANGED <<cfg, srefs>>
    /\ UNCHANGED <<fvars, dvars, cvars, rvars>>

\* Run(ctx, task): InitTargets comes first.
RunCall(p) ==
    /\ ppc[p] = "idle"
    /\ pcall' = [pcall EXCEPT ![p] = [NoPCall EXCEPT !.op = "Run"]]
    /\ ppc' = [ppc EXCEPT ![p] = "it_lock"]
    /\ UNCHANGED <<db, prefs, targets, pm, nshell, pret>>
    /\ UNCHANGED <<fvars, dvars, cvars, ivars, rvars>>

\* cmd, err := p.basis.component(...); if err != nil { return err }
RunComponent(p) ==
    /\ ppc[p] = "run_component"
    /\ \E ok \in BOOLEAN :
        /\ run' = [run EXCEPT ![p].component = ok,
                              ![p].ret = IF ok THEN @ ELSE "comperr"]
        /\ pret' = [pret EXCEPT ![p] = IF ok THEN @ ELSE Err]
        /\ ppc' = [ppc EXCEPT ![p] = IF ok THEN "run_invoke" ELSE "run_ret"]
    /\ UNCHANGED <<db, prefs, targets, pm, nshell, pcall>>
    /\ UNCHANGED <<cfg, srefs>>
    /\ UNCHANGED <<fvars, dvars, cvars, rvars>>

\* What callDynamicFunc may return: no result or an int32, with no error, a
\* plain error or an error that carries a remote status.
Invocations ==
    {i \in [hasResult : BOOLEAN, result : 0..2, err : {"", "plain", "status"}] :
        ~i.hasResult => i.result = 0}

\* Mutant: a result other than zero counts as success when there is no error.
RunInvokeIgnoresResult(p) ==
    /\ ppc[p] = "run_invoke"
    /\ \E i \in Invocations :
        LET failed == i.err # "" \/ ~i.hasResult
        IN /\ run' = [run EXCEPT ![p] =
                 [@ EXCEPT !.invoked = TRUE, !.hasResult = i.hasResult,
                           !.result = i.result, !.err = i.err,
                           !.ret = IF failed THEN "runerror" ELSE "ok",
                           !.exitCode = IF failed /\ i.hasResult THEN i.result ELSE 0,
                           !.reterr = IF failed THEN i.err ELSE "",
                           !.retstatus = failed /\ i.err = "status"]]
           /\ pret' = [pret EXCEPT ![p] = IF failed THEN Err ELSE None]
    /\ ppc' = [ppc EXCEPT ![p] = "run_ret"]
    /\ UNCHANGED <<db, prefs, targets, pm, nshell, pcall>>
    /\ UNCHANGED <<cfg, srefs>>
    /\ UNCHANGED <<fvars, dvars, cvars, rvars>>

\* result, err := p.callDynamicFunc(...)
\* if err != nil || result == nil || result.(int32) != 0 {
\*     cmdErr := &runError{}; err and its status when there is one; the exit
\*     code when there is a result; return cmdErr }
\* return
RunInvoke(p) ==
    /\ ppc[p] = "run_invoke"
    /\ \E i \in Invocations :
        LET failed == i.err # "" \/ ~i.hasResult \/ i.result # 0
        IN /\ run' = [run EXCEPT ![p] =
                 [@ EXCEPT !.invoked = TRUE, !.hasResult = i.hasResult,
                           !.result = i.result, !.err = i.err,
                           !.ret = IF failed THEN "runerror" ELSE "ok",
                           !.exitCode = IF failed /\ i.hasResult THEN i.result ELSE 0,
                           !.reterr = IF failed THEN i.err ELSE "",
                           !.retstatus = failed /\ i.err = "status"]]
           /\ pret' = [pret EXCEPT ![p] = IF failed THEN Err ELSE None]
    /\ ppc' = [ppc EXCEPT ![p] = "run_ret"]
    /\ UNCHANGED <<db, prefs, targets, pm, nshell, pcall>>
    /\ UNCHANGED <<cfg, srefs>>
    /\ UNCHANGED <<fvars, dvars, cvars, rvars>>

\* The caller of Run takes the result.
RunReturn(p) ==
    /\ ppc[p] = "run_ret"
    /\ ppc' = [ppc EXCEPT ![p] = "idle"]
    /\ pcall' = [pcall EXCEPT ![p] = NoPCall]
    /\ pret' = [pret EXCEPT ![p] = None]
    /\ run' = [run EXCEPT ![p] = NoRun]
    /\ UNCHANGED <<db, prefs, targets, pm, nshell>>
    /\ UNCHANGED <<cfg, srefs>>
    /\ UNCHANGED <<fvars, dvars, cvars, rvars>>

\* ------------------------------------------------------------ Project.Save
SaveCall(p) ==
    /\ ppc[p] = "idle"
    /\ pcall' = [pcall EXCEPT ![p] = [NoPCall EXCEPT !.op = "Save"]]
    /\ ppc' = [ppc EXCEPT ![p] = "sv_lock"]
    /\ UNCHANGED <<db, prefs, targets, pm, nshell, pret>>
    /\ UNCHANGED <<fvars, dvars, cvars, ivars, rvars>>

\* Mutant: the upsert is made without the lock.
SaveLockSkipped(p) ==
    /\ ppc[p] = "sv_lock"
    /\ ppc' = [ppc EXCEPT ![p] = "sv_upsert"]
    /\ UNCHANGED <<db, prefs, targets, pm, nshell, pcall, pret>>
    /\ UNCHANGED <<fvars, dvars, cvars, ivars, rvars>>

\* p.m.Lock(); defer p.m.Unlock()
SaveLock(p) ==
    /\ ppc[p] = "sv_lock"
    /\ pm = ""
    /\ pm' = p
    /\ ppc' = [ppc EXCEPT ![p] = "sv_upsert"]
    /\ UNCHANGED <<db, prefs, targets, nshell, pcall, pret>>
    /\ UNCHANGED <<fvars, dvars, cvars, ivars, rvars>>

\* result, err := p.Client().UpsertProject(...); p.project = result.Project
\* The server answers with its record of the Project.  With an error the
\* client hands back no response, and reading result.Project panics.
SaveUpsert(p) ==
    /\ ppc[p] = "sv_upsert"
    /\ \E ok \in BOOLEAN :
        /\ pcall' = [pcall EXCEPT ![p].acc = Append(@, PCCall("UpsertProject", "", ok))]
        /\ prefs' = IF ok THEN srefs ELSE prefs
        /\ pret' = [pret EXCEPT ![p] = IF ok THEN None ELSE Err]
        /\ ppc' = [ppc EXCEPT ![p] = IF ok THEN "sv_unlock" ELSE "sv_panic"]
    /\ UNCHANGED <<db, targets, pm, nshell>>
    /\ UNCHANGED <<fvars, dvars, cvars, ivars, rvars>>

\* The deferred p.m.Unlock(), at the return or while the panic unwinds.
SaveUnlock(p) ==
    /\ ppc[p] \in {"sv_unlock", "sv_panic"}
    /\ pm' = IF pm = p THEN "" ELSE pm
    /\ ppc' = [ppc EXCEPT ![p] = IF ppc[p] = "sv_unlock" THEN "ret" ELSE "panic"]
    /\ UNCHANGED <<db, prefs, targets, nshell, pcall, pret>>
    /\ UNCHANGED <<fvars, dvars, cvars, ivars, rvars>>

\* A Project with its configuration, loaded before any of its Targets is
\* persisted; the server's record of it lists no reference either.
InitInit ==
    /\ ProjectIdle
    /\ cfg \in Cfgs
    /\ srefs = prefs
    /\ run = [p \in Callers |-> NoRun]

InitNext ==
    \E p \in Callers :
        \/ InitTargetsCall(p)
        \/ InitTargetsLock(p)
        \/ InitTargetsUpsert(p)
        \/ InitTargetsRefresh(p)
        \/ InitTargetsUnlock(p)
        \/ RunCall(p)
        \/ RunComponent(p)
        \/ RunInvoke(p)
        \/ RunReturn(p)
        \/ SaveCall(p)
        \/ SaveLock(p)
        \/ SaveUpsert(p)
        \/ SaveUnlock(p)
        \/ LoadTargetCall(p)
        \/ LoadTargetLock(p)
        \/ LoadTargetBuild(p)
        \/ LoadTargetRegister(p)
        \/ LoadTargetUnlock(p)
        \/ Return(p)

\* ------------------------------------------- Project.LoadTarget, options
\* What an option returns when it is applied.
OptionResults == {"ok", "fail"}

\* LoadTarget(WithTargetRef(ref), opts...): a reference by resource id
\* followed by further options.
LoadTargetOptionsCall(p) ==
    /\ ppc[p] = "idle"
    /\ \E r \in RecIds, os \in SeqsUpTo(OptionResults, MaxOpts) \ {<<>>} :
        pcall' = [pcall EXCEPT ![p] =
                     [NoPCall EXCEPT !.op = "LoadTarget", !.id = r, !.opts = os]]
    /\ ppc' = [ppc EXCEPT ![p] = "lt_lock"]
    /\ UNCHANGED <<db, prefs, targets, pm, nshell, pret>>
    /\ UNCHANGED <<fvars, xvars>>

\* A loaded Project with no Target loaded; the Persistence Client holds any
\* of the target records.
OptionsInit ==
    /\ db \in SUBSET RecIds
    /\ prefs = <<>>
    /\ targets = [r \in RecIds |-> NoTarget]
    /\ pm = ""
    /\ nshell = 0
    /\ ppc = [p \in Callers |-> "idle"]
    /\ pcall = [p \in Callers |-> NoPCall]
    /\ pret = [p \in Callers |-> None]

OptionsNext ==
    \E p \in Callers :
        \/ LoadTargetOptionsCall(p)
        \/ LoadTargetLock(p)
        \/ LoadTargetBuild(p)
        \/ LoadTargetRegister(p)
        \/ LoadTargetUnlock(p)
        \/ Return(p)

\* ------------------------------------------------------- WithProjectRef
\* Resource ids of Basis records: the Basis that loads the Project, and
\* another one.
LoadingBasis == "b1"
BasisRefs == {"b1", "b2"}

\* p.project before any option has set it.
NoRecord == [src |-> "", basis |-> ""]
\* A project record by where it comes from and the basis it names.
Record(src, basis) == [src |-> src, basis |-> basis]

\* One application of WithProjectRef(r) to a Project p:
\*   basisSet:  whether WithBasis has set p.basis (to the loading Basis)
\*   refBasis:  r.Basis.ResourceId
\*   loaded:    the basis named by the record of p.basis.projects[r.Name],
\*              "" when the Basis has not loaded a Project of that name
\*   findErr, found:     FindProject's error, or the basis of its record
\*   upsertErr, upserted: UpsertProject's error, or the basis of its record
RefInputs ==
    [basisSet : BOOLEAN, refBasis : BasisRefs, loaded : BasisRefs \cup {""},
     findErr : BOOLEAN, found : BasisRefs,
     upsertErr : BOOLEAN, upserted : BasisRefs]

NoRefIn == [basisSet |-> FALSE, refBasis |-> "b1", loaded |-> "",
            findErr |-> FALSE, found |-> "b1", upsertErr |-> FALSE, upserted |-> "b1"]
NoRefOut == [done |-> FALSE, err |-> "", project |-> NoRecord, calls |-> <<>>]

\* if project.Basis.ResourceId != r.Basis.ResourceId {
\*   return errors.New("project basis configuration is invalid") }
\* p.project = project
ValidateBasis(in, rec, calls) ==
    IF rec.basis # in.refBasis
    THEN [done |-> TRUE, err |-> "invalid", project |-> NoRecord, calls |-> calls]
    ELSE [done |-> TRUE, err |-> "", project |-> rec, calls |-> calls]

\* The function WithProjectRef(r) returns, applied to p.  On the already
\* loaded path the record is assigned to the local variable project and the
\* function returns; p.project is not assigned.
WithProjectRef(in) ==
    IF ~in.basisSet
    THEN [NoRefOut EXCEPT !.done = TRUE, !.err = "nobasis"]
    ELSE IF in.loaded # ""
    THEN [NoRefOut EXCEPT !.done = TRUE]
    ELSE IF ~in.findErr
    THEN ValidateBasis(in, Record("found", in.found), <<"FindProject">>)
    ELSE IF in.upsertErr
    THEN [NoRefOut EXCEPT !.done = TRUE, !.err = "client",
                          !.calls = <<"FindProject", "UpsertProject">>]
    ELSE ValidateBasis(in, Record("upserted", in.upserted),
                       <<"FindProject", "UpsertProject">>)

\* The option is applied to a new Project.
WithProjectRefApply ==
    /\ ~prout.done
    /\ prout' = WithProjectRef(prin)
    /\ UNCHANGED <<prin, fvars, pvars, dvars, cvars, ivars>>

\* No WithProjectRef is part of the run.
RefIdle == prin = NoRefIn /\ prout = NoRefOut

RefInit == prin \in RefInputs /\ prout = NoRefOut

RefNext == WithProjectRefApply

\* No DefaultProvider call is part of the run.
ProviderIdle == dpin = NoDPIn /\ dpout = NoDPOut

\* Nothing outside the Factory and the target collection is used.
ExtraIdle == ProviderIdle /\ CloseIdle /\ InitIdle /\ RefIdle

\* A Factory serving callers; the Project is not touched.
FactoryStart == FactoryInit /\ ProjectIdle /\ ExtraIdle

FactorySpec == FactoryStart /\ [][FactoryNext]_vars

\* A loaded Project serving callers; its Factory is not touched.
ProjectStart == ProjectInit /\ FactoryInit /\ ExtraIdle

ProjectSpec == ProjectStart /\ [][ProjectNext]_vars

ProviderInit ==
    /\ \E o \in DPOptions, l \in Listings : dpin = DPInput(o, l)
    /\ dpout = NoDPOut

ProviderNext == DefaultProviderCall

\* One DefaultProvider call on a Project that is otherwise left alone.
ProviderStart == ProviderInit /\ FactoryInit /\ ProjectIdle /\ CloseIdle /\ InitIdle /\ RefIdle

ProviderSpec == ProviderStart /\ [][ProviderNext]_vars

\* Callers load Targets and register cleanup actions, then the Project is
\* closed.
CloseStart == CloseInit /\ FactoryInit /\ ProviderIdle /\ InitIdle /\ RefIdle

CloseSpec == CloseStart /\ [][CloseNext]_vars

\* Callers initialise the Project's Targets, run tasks, save the Project and
\* load Targets.
InitStart == InitInit /\ FactoryInit /\ ProviderIdle /\ CloseIdle /\ RefIdle

InitSpec == InitStart /\ [][InitNext]_vars

\* One Project serving LoadTarget calls that carry several options.
OptionsStart == OptionsInit /\ FactoryInit /\ ExtraIdle

OptionsSpec == OptionsStart /\ [][OptionsNext]_vars

\* WithProjectRef applied once, on each reference and each answer of the
\* Persistence Client.
RefStart ==
    RefInit /\ FactoryInit /\ ProjectIdle /\ ProviderIdle /\ CloseIdle /\ InitIdle

RefSpec == RefStart /\ [][RefNext]_vars


\* ------------------------------------------------------------ Factory claims
\* The callers that are inside Factory.New past its Lock.
InNew(p) == fpc[p] \in {"check", "sub", "construct", "recheck", "return"}

\* A Basis that won registration: it is, or has been, in the registry.
IsWinner(b) ==
    \/ bases[b].st \in {"live", "closing", "closed"}
    \/ \E n \in Names : registered[n] = b

\* C1: while a Basis is registered under a name, the entry for that name is
\* never overwritten (it only goes away, deleted by that Basis's own close),
\* and a Factory.New whose candidate resolves to that name returns the
\* registered Basis and leaves the entry alone.
C1_FirstRegistrationWins ==
    [][\A n \in Names :
         registered[n] # None =>
           /\ registered'[n] # registered[n] =>
                /\ registered'[n] = None
                /\ bases[registered[n]].st = "closing"
           /\ \A p \in Procs :
                (fpc[p] = "recheck" /\ fpc'[p] = "return" /\ bases[fcall[p].b].name = n) =>
                  /\ fret'[p] = registered[n]
                  /\ registered'[n] = registered[n]]_vars

\* C1 witness: a call built a candidate, found its name taken and is
\* returning the registered Basis instead.
C1_Witness ==
    \E p \in Procs :
        /\ fpc[p] = "return"
        /\ fcall[p].b # 0
        /\ fret[p] \in BasisIds
        /\ fret[p] # fcall[p].b
        /\ registered[bases[fcall[p].b].name] = fret[p]

\* C2: a named Factory.New constructs a candidate only while its name is not
\* registered, so concurrent calls with the same name build the Basis once;
\* two calls whose returned Basis of one name are both still open returned
\* the same instance; a discarded candidate has had its cleanup actions run
\* exactly once and is not in the registry.
C2_SameNameSameBasis ==
    /\ \A p \in Procs :
         (fpc[p] \in {"sub", "construct", "recheck"} /\ fcall[p].name # "") =>
           registered[fcall[p].name] = None
    /\ \A p, q \in Procs :
         (/\ fret[p] \in BasisIds /\ fret[q] \in BasisIds
          /\ bases[fret[p]].name = bases[fret[q]].name
          /\ bases[fret[p]].st \in {"candidate", "live"}
          /\ bases[fret[q]].st \in {"candidate", "live"}) => fret[p] = fret[q]
    /\ \A b \in BasisIds :
         bases[b].st = "discarded" =>
           /\ bases[b].ran = <<"hook">>
           /\ \A n \in Names : registered[n] # b
           /\ \A p \in Procs : fpc[p] = "closing" => fcall[p].b # b

\* C2 witness: one caller holds the Basis it registered while the other,
\* called with the same name, is returning that same Basis from the registry.
C2_Witness ==
    \E p, q \in Procs :
        /\ p # q
        /\ fpc[p] = "idle" /\ fret[p] \in BasisIds
        /\ fpc[q] = "return" /\ fcall[q].name = bases[fret[p]].name
        /\ fcall[q].pm = 0
        /\ fret[q] = fret[p]
        /\ bases[fret[p]].st = "live"

\* C3: a Factory.New with a non-empty, registered name returns the
\* registered Basis, and none of its steps creates a sub-scope, constructs a
\* candidate, applies options or touches the registry or a cleanup list.
C3_RegistryHitChangesNothing ==
    [][\A p \in Procs :
         /\ (/\ fpc[p] = "check" /\ fpc'[p] # "check"
             /\ fcall[p].name # "" /\ registered[fcall[p].name] # None) =>
               /\ fpc'[p] = "return"
               /\ fret'[p] = registered[fcall[p].name]
               /\ UNCHANGED <<registered, subs, bases>>
         /\ (fpc[p] = "return" /\ fcall[p].pm = 0 /\ fpc'[p] # "return") =>
               UNCHANGED <<registered, subs, bases>>]_vars

\* C3 witness: a call that made no sub-scope is returning a registered Basis.
C3_Witness ==
    \E p \in Procs :
        /\ fpc[p] = "return"
        /\ fcall[p].pm = 0
        /\ fret[p] \in BasisIds
        /\ registered[fcall[p].name] = fret[p]

\* C4: when construction fails the call returns the error and no Basis, and
\* the registry stays what it was when the call took the lock: no step taken
\* while the call is between its Lock and its failing return changes it.
C4_FailedConstructionRegistersNothing ==
    [][\A p \in Procs :
         /\ (fpc[p] \in {"check", "sub", "construct"}
             \/ (fpc[p] = "return" /\ fret[p] = Err)) => registered' = registered
         /\ (fpc[p] = "construct" /\ fpc'[p] = "return") =>
               /\ fret'[p] = Err
               /\ bases'[fcall[p].pm].st = "none"
               /\ bases' = bases]_vars

\* C4 witness: a call is returning a construction error while another Basis
\* is registered.
C4_Witness ==
    \E p \in Procs :
        /\ fpc[p] = "return"
        /\ fret[p] = Err
        /\ bases[fcall[p].pm].st = "none"
        /\ \E n \in Names : registered[n] # None

\* C5: a Basis that won registration carries, after the cleanup actions of
\* its construction, deregister-by-name and then close-the-sub-scope; once it
\* is closed each of its cleanup actions has run once in that order, the
\* registry does not hold it, its sub-scope is closed, and Factory.New never
\* returns it again.
C5_CloseDeregisters ==
    /\ \A b \in BasisIds :
         IsWinner(b) => bases[b].closers = <<"hook", "deregister", "pmclose">>
    /\ \A b \in BasisIds :
         bases[b].st = "closed" =>
           /\ bases[b].ran = bases[b].closers
           /\ \A n \in Names : registered[n] # b
           /\ ~subs[b].open
    /\ \A p \in Procs :
         (InNew(p) /\ fret[p] \in BasisIds) => bases[fret[p]].st # "closed"

\* C5 witness: a Basis was closed and a fresh Basis of the same name is
\* registered in its place.
C5_Witness ==
    \E b, c \in BasisIds :
        /\ b # c
        /\ bases[b].st = "closed"
        /\ bases[c].name = bases[b].name
        /\ registered[bases[b].name] = c
        /\ bases[c].st = "live"

Steps(p) == ppc'[p] # ppc[p]

\* C7: every successful LoadTarget returns the Target registered under the
\* resource id its options resolved to; a registered Target is never
\* replaced; distinct resource ids hold distinct Targets.
C7_LoadTargetIdempotent ==
    /\ [](/\ \A p \in Callers :
               (ppc[p] = "lt_unlock" /\ pret[p] # Err) =>
                   /\ pcall[p].rec \in Loaded
                   /\ pret[p] = targets[pcall[p].rec].inst
           /\ \A r1, r2 \in Loaded : targets[r1].inst = targets[r2].inst => r1 = r2)
    /\ [][\A r \in RecIds : r \in Loaded => targets'[r].inst = targets[r].inst]_vars

\* C7 witness: a second load of a resource id built a shell of its own and
\* returns the Target registered first.
C7_Witness ==
    \E p \in Callers :
        /\ ppc[p] = "lt_unlock"
        /\ pcall[p].shell # 0
        /\ pret[p] # Err
        /\ pret[p] # pcall[p].shell
        /\ pret[p] = targets[pcall[p].rec].inst

C9_ProviderGuard ==
    [][\A r \in RecIds :
         (r \in Loaded /\ targets'[r].provider # targets[r].provider) =>
            \E p \in Callers :
                /\ ppc[p] = "t_lookup" /\ ppc'[p] = "ret"
                /\ pcall[p].id = RecName[r]
                /\ pcall[p].id \notin Loaded
                /\ pcall[p].prov # ""
                /\ ~RecActive[r]
                /\ targets'[r].provider = pcall[p].prov
                /\ pret'[p] = targets[r].inst]_vars

\* C9 witness: a lookup with a provider matched an active Target by name and
\* left its provider empty, and a lookup with a provider matched a Target
\* that is not active by name, which now has that provider.
C9_Witness ==
    \E p, q \in Callers, r, u \in Loaded :
        /\ ppc[p] = "ret" /\ pcall[p].op = "Target" /\ pcall[p].shell = 0
        /\ pcall[p].id = RecName[r] /\ pcall[p].prov # ""
        /\ RecActive[r] /\ pret[p] = targets[r].inst /\ targets[r].provider = ""
        /\ ppc[q] = "ret" /\ pcall[q].op = "Target" /\ pcall[q].shell = 0
        /\ pcall[q].id = RecName[u] /\ pcall[q].prov # ""
        /\ ~RecActive[u] /\ pret[q] = targets[u].inst
        /\ targets[u].provider = pcall[q].prov

\* C10: TargetIds() and TargetNames() return the resource ids and the names
\* of the persisted references, in list order; the list changes only when
\* the test helper has loaded one more target, which adds that target's
\* reference at the end, so loading through LoadTarget alone changes neither
\* result; a Targets() that succeeds returns, for each reference of the list
\* in order, the loaded Target of that resource id.
C10_ListsFollowReferences ==
    /\ [](\A p \in Callers :
             (ppc[p] = "ret" /\ pcall[p].op = "Targets" /\ pret[p] # Err) =>
                 /\ Len(pcall[p].acc) = Len(pcall[p].snap)
                 /\ \A i \in 1..Len(pcall[p].snap) :
                      /\ pcall[p].snap[i].rid \in Loaded
                      /\ pcall[p].acc[i] = targets[pcall[p].snap[i].rid].inst)
    /\ [][\A p \in Callers :
            /\ (ppc[p] = "idle" /\ pcall'[p].op = "TargetIds") =>
                  /\ Len(pcall'[p].acc) = Len(prefs)
                  /\ \A i \in 1..Len(prefs) : pcall'[p].acc[i] = prefs[i].rid
            /\ (ppc[p] = "idle" /\ pcall'[p].op = "TargetNames") =>
                  /\ Len(pcall'[p].acc) = Len(prefs)
                  /\ \A i \in 1..Len(prefs) : pcall'[p].acc[i] = prefs[i].name
            /\ (ppc[p] = "idle" /\ pcall'[p].op = "Targets") =>
                  /\ pcall'[p].snap = prefs
                  /\ prefs = <<>> => (ppc'[p] = "ret" /\ pcall'[p].acc = <<>>)
            /\ (ppc[p] = "tt_append" /\ Steps(p)) =>
                  \E r \in Loaded :
                      /\ targets[r].inst = pret[p]
                      /\ TargetIds(prefs') = Append(TargetIds(prefs), r)
                      /\ TargetNames(prefs') = Append(TargetNames(prefs), RecName[r])
            /\ (prefs' # prefs) => \E q \in Callers : ppc[q] = "tt_append" /\ Steps(q)]_vars

\* C10 witness: Targets() is returning two distinct Targets for a list of
\* two references while the target map is not what the list names.
C10_Witness ==
    \E p \in Callers :
        /\ ppc[p] = "ret" /\ pcall[p].op = "Targets"
        /\ Len(pcall[p].acc) = 2
        /\ pcall[p].acc[1] # pcall[p].acc[2]
        /\ Len(TargetIds(prefs)) = 2
        /\ prefs = pcall[p].snap

\* ------------------------------------------------- DefaultProvider claims
\* The least element of a non-empty set of positions.
First(S) == CHOOSE i \in S : \A j \in S : i <= j

\* The positions of a list whose entry is in another list.
PosIn(s, t) == {i \in 1..Len(s) : InSeq(s[i], t)}

\* C14: when the default-provider override is non-empty and ForceDefault is
\* set, the call returns the override without error, whatever the
\* configuration, the installed plugins and the exclusions are, and it lists
\* and fetches no plugin.
C14_ForcedOverrideReturned ==
    (dpout.done /\ dpin.envDefault # "" /\ dpin.ForceDefault) =>
        /\ dpout.name = dpin.envDefault
        /\ dpout.err = ""
        /\ ~dpout.listed
        /\ dpout.fetched = 0

\* A forced override that is excluded and not installed is returned.
C14_Witness ==
    /\ dpout.done
    /\ dpin.ForceDefault
    /\ dpin.envDefault = "vmware"
    /\ "vmware" \in dpin.excluded
    /\ \A i \in 1..Len(dpin.plugins) : dpin.plugins[i].name # "vmware"
    /\ dpin.CheckUsable
    /\ dpout.name = "vmware"

\* C15: when the usable list has been collected, the environment default is
\* not in it and some configured provider is, the call returns the first
\* configured provider that is usable and preferred if there is one, else the
\* first configured provider that is usable; the two examples of the spec
\* give virtualbox and vmware.
C15_ConfiguredProviderChosen ==
    LET c == dpout.configured
        u == dpout.usable
        cu == PosIn(c, u)
        cup == {i \in cu : InSeq(c[i], dpout.preferred)}
    IN (/\ dpout.done /\ dpout.listed /\ dpout.err # "plugin"
        /\ ~InSeq(dpin.envDefault, u)
        /\ cu # {}) =>
           /\ dpout.err = ""
           /\ dpout.name = IF cup # {} THEN c[First(cup)] ELSE c[First(cu)]
           /\ (/\ c = <<"vmware", "virtualbox">>
               /\ u = <<"virtualbox", "vmware">>
               /\ dpout.preferred = <<"virtualbox">>) => dpout.name = "virtualbox"
           /\ (/\ c = <<"virtualbox", "vmware">>
               /\ u = <<"vmware">>
               /\ dpout.preferred = <<>>) => dpout.name = "vmware"

\* Both configured providers are usable and preferred, and the preferred list
\* names them in the other order: the configuration's order decides.
C15_Witness ==
    /\ dpout.done
    /\ dpout.configured = <<"vmware", "virtualbox">>
    /\ dpout.usable = <<"virtualbox", "vmware">>
    /\ dpout.preferred = <<"virtualbox", "vmware">>
    /\ dpout.name = "vmware"
    /\ dpout.tier = 6

\* What the tiers give for a default, a configured list, a usable list and a
\* preferred list: the provider of the first tier that has one.
TierChoice(d, c, u, f) ==
    LET cu == PosIn(c, u)
        cup == {i \in cu : InSeq(c[i], f)}
        fu == PosIn(f, u)
    IN IF InSeq(d, u) THEN d
       ELSE IF cup # {} THEN c[First(cup)]
       ELSE IF cu # {} THEN c[First(cu)]
       ELSE IF fu # {} THEN f[First(fu)]
       ELSE IF u # <<>> THEN u[1]
       ELSE ""

\* C18 as stated: every call that is not forced returns the provider of the
\* first tier that has one, and fails with the no-default-provider error
\* exactly when the usable list is empty.
C18_EveryCallDecidedByTiers ==
    (dpout.done /\ ~(dpin.envDefault # "" /\ dpin.ForceDefault)) =>
        /\ dpout.name = TierChoice(dpin.envDefault, dpout.configured, dpout.usable,
                                   dpout.preferred)
        /\ (dpout.err = "nodefault") <=> (dpout.usable = <<>>)
        /\ dpout.err \in {"", "nodefault"}

\* C18 (amended): every call that is not forced and in which the plugin
\* manager returns no error returns the provider of the first tier that has
\* one, in the order 4, 6, 7, 8, 9, and fails with the no-default-provider
\* error exactly when the usable list is empty; a call in which the plugin
\* manager returns an error fails with that error and returns no provider.
C18_TiersDecideWithoutPluginError ==
    (dpout.done /\ ~(dpin.envDefault # "" /\ dpin.ForceDefault)) =>
        IF dpout.err = "plugin"
        THEN /\ dpout.name = ""
             /\ \/ dpin.listErr
                \/ /\ dpin.CheckUsable
                   /\ \E i \in 1..Len(dpin.plugins) : dpin.plugins[i].ans = "error"
        ELSE /\ ~dpin.listErr
             /\ dpout.name = TierChoice(dpin.envDefault, dpout.configured,
                                        dpout.usable, dpout.preferred)
             /\ (dpout.err = "nodefault") <=> (dpout.usable = <<>>)
             /\ dpout.err \in {"", "nodefault"}

\* The preferred list decides (tier 8): no provider is configured, and the
\* preferred provider is not the first of the usable list.
C18_Witness ==
    /\ dpout.done
    /\ dpout.configured = <<>>
    /\ dpout.usable = <<"virtualbox", "vmware">>
    /\ dpout.preferred = <<"vmware">>
    /\ dpout.tier = 8
    /\ dpout.name = "vmware"

\* --------------------------------------------------- Closer / Close claims
\* The positions of the Close log that are closes of Targets.
TargetCloses == {k \in 1..Len(clog) : clog[k].kind = "target"}

\* C11: when Close returns, every loaded Target has been closed once, then
\* every cleanup action of the closer list has run once in registration
\* order, the Project is no longer in its Basis's collection, and the
\* returned error holds every failure, being nil only when nothing failed.
C11_CloseToleratesFailures ==
    \A p \in Callers : Closed(p) =>
        /\ \A r \in Loaded :
              Cardinality({k \in TargetCloses : clog[k].rec = r}) = 1
        /\ \A k \in TargetCloses : clog[k].rec \in Loaded
        /\ Len(clog) = Cardinality(Loaded) + Len(closers)
        /\ \A k \in 1..Len(clog) :
              IF k <= Cardinality(Loaded)
              THEN clog[k].kind = "target"
              ELSE /\ clog[k].kind = "closer"
                   /\ clog[k].id = closers[k - Cardinality(Loaded)]
        /\ ~inBasis
        /\ pcall[p].acc = SelectSeq(clog, LAMBDA e : e.failed)
        /\ (pret[p] = None) <=> (\A k \in 1..Len(clog) : ~clog[k].failed)
        /\ pret[p] \in {None, Err}

\* Two Targets and two cleanup actions; the first Target's close and the
\* first cleanup action fail, the others do not.
C11_Witness ==
    \E p \in Callers :
        /\ Closed(p)
        /\ Cardinality(Loaded) = 2
        /\ Len(closers) = 2
        /\ Len(clog) = 4
        /\ clog[1].failed /\ ~clog[2].failed /\ clog[3].failed /\ ~clog[4].failed
        /\ Len(pcall[p].acc) = 2
        /\ pret[p] = Err
        /\ ~inBasis

\* C17: the closer list is guarded by the Project's lock, so that no
\* registered cleanup action is lost: every cleanup action whose Closer call
\* has returned is in the closer list.
C17_NoCleanupActionLost ==
    \A c \in creg : InSeq(c, closers)

\* C20: a registered Target has exactly one save action, a LoadTarget that
\* finds the Target already loaded attaches nothing and discards its shell,
\* and when Close returns every loaded Target has been closed once, running
\* its one Save.
C20_OneSavePerTarget ==
    /\ [](\A r \in Loaded : targets[r].saves = 1)
    /\ [][\A p \in Callers :
            (ppc[p] = "lt_register" /\ ppc'[p] = "lt_unlock"
                /\ targets[pcall[p].rec].inst # 0) =>
               /\ targets' = targets
               /\ pret'[p] = targets[pcall[p].rec].inst
               /\ pret'[p] # pcall[p].shell]_vars
    /\ [](\A p \in Callers : Closed(p) =>
            \A r \in Loaded :
               /\ Cardinality({k \in TargetCloses : clog[k].rec = r}) = 1
               /\ \A k \in TargetCloses :
                     clog[k].rec = r =>
                        clog[k].shell = targets[r].inst /\ clog[k].saves = 1)

\* A Target loaded twice, its second shell discarded, and the Project
\* closed: the Target was saved once.
C20_Witness ==
    \E p \in Callers :
        /\ Closed(p)
        /\ Loaded = {"i1"}
        /\ nshell >= 2
        /\ Len(clog) >= 1
        /\ clog[1].rec = "i1" /\ clog[1].saves = 1 /\ clog[1].shell = targets["i1"].inst

\* ------------------------------------------ InitTargets / Run / Save claims
\* The upserts of Targets a call has made so far, in order.
Upserts(p) == SelectSeq(pcall[p].acc, LAMBDA c : c.call = "UpsertTarget")

\* The machine configurations that are not nil, in configuration order.
Machines == SelectSeq(cfg.machines, LAMBDA e : e # "nil")

\* C12: InitTargets upserts the machine configurations in configuration
\* order; an upsert that fails is the last one made and InitTargets returns
\* its error; without configuration or machine entries InitTargets calls
\* the Persistence Client not at all and returns success.
C12_InitTargetsFailFast ==
    \A p \in Callers :
        (pcall[p].op \in {"InitTargets", "Run"}
            /\ ppc[p] \in {"it_upsert", "it_refresh", "it_unlock"}) =>
        LET ups == Upserts(p)
        IN /\ Len(ups) <= Len(Machines)
           /\ \A k \in 1..Len(ups) : ups[k].name = Machines[k]
           /\ \A k \in 1..Len(ups) : k < Len(ups) => ups[k].ok
           /\ ppc[p] = "it_unlock" =>
                 /\ \/ ups # <<>> /\ ~ups[Len(ups)].ok /\ pret[p] = Err
                    \/ Len(ups) = Len(Machines) /\ \A k \in 1..Len(ups) : ups[k].ok
                 /\ (~cfg.present \/ Machines = <<>>) =>
                       pcall[p].acc = <<>> /\ pret[p] = None

\* Two machines are configured; the first upsert fails and InitTargets
\* returns its error with no second upsert.
C12_Witness ==
    \E p \in Callers :
        /\ ppc[p] = "it_unlock"
        /\ cfg.machines = <<"n1", "n2">>
        /\ pcall[p].acc = <<PCCall("UpsertTarget", "n1", FALSE)>>
        /\ pret[p] = Err

\* InitTargets failed: the last call it made of the Persistence Client did.
InitFailed(p) ==
    pcall[p].acc # <<>> /\ ~pcall[p].acc[Len(pcall[p].acc)].ok

\* C13: when Run returns after InitTargets and the component lookup
\* succeeded, it returns success exactly when the invocation gave no error
\* and the result zero, and otherwise a run failure with the result as exit
\* code, the error, and its status when it has one; when InitTargets failed
\* Run returns the error and no component was resolved or invoked.
C13_RunResult ==
    \A p \in Callers : ppc[p] = "run_ret" =>
        LET r == run[p]
        IN /\ InitFailed(p) =>
                 /\ pret[p] = Err /\ r.ret = "initerr"
                 /\ ~r.component /\ ~r.invoked
           /\ (~InitFailed(p) /\ r.component) =>
                 /\ r.invoked
                 /\ IF r.err = "" /\ r.hasResult /\ r.result = 0
                    THEN r.ret = "ok" /\ pret[p] = None
                    ELSE /\ r.ret = "runerror" /\ pret[p] = Err
                         /\ r.exitCode = (IF r.hasResult THEN r.result ELSE 0)
                         /\ r.reterr = r.err
                         /\ r.retstatus <=> (r.err = "status")
           /\ (~InitFailed(p) /\ ~r.component) =>
                 pret[p] = Err /\ r.ret = "comperr" /\ ~r.invoked

\* The invocation returns the result 2 and no error: a run failure with
\* exit code 2.
C13_Witness ==
    \E p \in Callers :
        /\ ppc[p] = "run_ret"
        /\ run[p].invoked /\ run[p].hasResult /\ run[p].result = 2 /\ run[p].err = ""
        /\ run[p].ret = "runerror" /\ run[p].exitCode = 2
        /\ Len(Upserts(p)) = 2

\* The positions at which a caller waits for the Persistence Client:
\* LoadTarget's options, Save's upsert, InitTargets' upserts and refresh.
Waiting == {"lt_build", "sv_upsert", "it_upsert", "it_refresh"}

\* C16 as stated: the Project lock is not held by a caller that waits for
\* the Persistence Client.
C16_LockFreeWhileWaiting ==
    \A p \in Callers : ppc[p] \in Waiting => pm # p

\* C16 (amended): LoadTarget, Save and InitTargets hold the Project lock from
\* entry to return, so a caller that waits for the Persistence Client in one
\* of them holds the lock.
C16_LockHeldWhileWaiting ==
    \A p \in Callers : ppc[p] \in Waiting => pm = p

\* Save waits for its upsert with the lock held while LoadTarget waits for
\* the lock.
C16_Witness ==
    \E p, q \in Callers :
        /\ ppc[p] = "sv_upsert" /\ pm = p
        /\ ppc[q] = "lt_lock"

\* C19: when InitTargets returns and one of its upserts succeeded, it has
\* refreshed the Project's record from the Persistence Client.
C19_RefreshAfterAnyUpsert ==
    \A p \in Callers :
        (ppc[p] = "it_unlock"
            /\ \E k \in 1..Len(pcall[p].acc) :
                  pcall[p].acc[k].call = "UpsertTarget" /\ pcall[p].acc[k].ok) =>
        \E k \in 1..Len(pcall[p].acc) : pcall[p].acc[k].call = "FindProject"

\* ------------------------------------------------ DefaultProvider, usable
\* The positions of the plugin listing that hold the given name.
Listed(name) == {i \in 1..Len(dpin.plugins) : dpin.plugins[i].name = name}

\* C24: a DefaultProvider call that is not forced and succeeds returns an
\* installed provider plugin that is not excluded and, when CheckUsable is
\* set, whose usability check succeeded.
C24_ReturnedProviderIsUsable ==
    (dpout.done /\ dpout.err = "" /\ ~(dpin.envDefault # "" /\ dpin.ForceDefault)) =>
        /\ Listed(dpout.name) # {}
        /\ dpout.name \notin dpin.excluded
        /\ dpin.CheckUsable =>
              \A i \in Listed(dpout.name) : dpin.plugins[i].ans = "usable"
        /\ InSeq(dpout.name, dpout.usable)

\* The first configured provider is installed but not usable, and the call
\* returns the one behind it.
C24_Witness ==
    /\ dpout.done /\ dpout.err = ""
    /\ dpin.CheckUsable
    /\ Len(dpout.configured) = 2
    /\ \E i \in Listed(dpout.configured[1]) : dpin.plugins[i].ans = "unusable"
    /\ dpout.name = dpout.configured[2]
    /\ dpout.tier = 7

\* ------------------------------------------------------- Save, failed upsert
\* The caller's Save made its upsert and the upsert failed.
SaveFailed(p) ==
    /\ pcall[p].op = "Save"
    /\ \E k \in 1..Len(pcall[p].acc) :
          pcall[p].acc[k].call = "UpsertProject" /\ ~pcall[p].acc[k].ok

\* C25: a Save whose upsert failed comes to its end by returning the error,
\* with the lock released.
C25_SaveReturnsUpsertError ==
    \A p \in Callers :
        (SaveFailed(p) /\ ppc[p] \notin {"sv_upsert", "sv_panic"}) =>
            /\ ppc[p] = "ret"
            /\ pret[p] = Err
            /\ pm # p

\* ------------------------------------------------- Factory.New, sub-scopes
\* The Factory.New call that created sub-scope i has not returned yet.
Creating(i) == \E p \in Procs : fcall[p].pm = i

\* C26: once the Factory.New call that created a sub-scope has returned
\* without registering its candidate (construction failed, or the candidate
\* lost and was discarded), that sub-scope is closed.
C26_DroppedSubScopeClosed ==
    \A i \in 1..Len(subs) :
        (~Creating(i) /\ bases[i].st \in {"none", "discarded"}) => ~subs[i].open

\* ------------------------------------------------- LoadTarget, option errors
\* The caller's LoadTarget has applied its options.
OptionsApplied(p) ==
    pcall[p].op = "LoadTarget" /\ ppc[p] \in {"lt_register", "lt_unlock", "ret"}

\* What the options of the caller's LoadTarget return, in the order given.
OptionOutcomes(p) ==
    <<IF FindTarget(pcall[p].id, pcall[p].name) = "" THEN "fail" ELSE "ok">>
        \o pcall[p].opts

\* C21: LoadTarget applies every option it is given, the error it returns
\* holds the failure of each option that failed and of no other, and a call
\* with a failed option returns no Target, leaves the target map as it is
\* and attaches no save action.
C21_OptionErrorsAccumulate ==
    /\ [](\A p \in Callers : OptionsApplied(p) =>
             /\ pcall[p].applied = Len(OptionOutcomes(p))
             /\ \A i \in 1..Len(OptionOutcomes(p)) :
                   InSeq(i, pcall[p].oerrs) <=> OptionOutcomes(p)[i] = "fail"
             /\ pcall[p].oerrs # <<>> => ppc[p] # "lt_register" /\ pret[p] = Err)
    /\ [][\A p \in Callers :
             (ppc'[p] # ppc[p] /\ pcall'[p].op = "LoadTarget" /\ pcall'[p].oerrs # <<>>)
                 => targets' = targets]_vars

\* Three options were given; the first and the last failed and the call
\* ended with both failures.
C21_Witness ==
    \E p \in Callers :
        /\ pcall[p].op = "LoadTarget" /\ ppc[p] = "ret"
        /\ OptionOutcomes(p) = <<"fail", "ok", "fail">>
        /\ pcall[p].oerrs = <<1, 3>>
        /\ pret[p] = Err

\* ------------------------------------------------------ WithProjectRef claims
\* The record the Persistence Client handed to the option: the one found,
\* or the one upserted after the find failed.
Obtained ==
    IF ~prin.findErr THEN Record("found", prin.found)
    ELSE Record("upserted", prin.upserted)

\* WithProjectRef got a record from the Persistence Client.
GotRecord ==
    /\ prout.done /\ prin.basisSet /\ prin.loaded = ""
    /\ ~(prin.findErr /\ prin.upsertErr)

\* C22: the Project's record never names another basis than the loading
\* Basis; when the record found or upserted names another one, the option
\* fails with the configuration-invalid error and the record stays unset.
C22_RecordNamesLoadingBasis ==
    /\ prout.project # NoRecord => prout.project.basis = LoadingBasis
    /\ (GotRecord /\ Obtained.basis # LoadingBasis) =>
          prout.err = "invalid" /\ prout.project = NoRecord

\* C23: applied for a name the Basis has already loaded, WithProjectRef
\* returns without error and without a Persistence Client call, and the
\* Project's record is the loaded Project's record.
C23_InitialisedOnLoadedProject ==
    (prout.done /\ prin.basisSet /\ prin.loaded # "") =>
        /\ prout.err = ""
        /\ prout.calls = <<>>
        /\ prout.project = Record("loaded", prin.loaded)
====
